---- MODULE Spec2Model ----
(***************************************************************************)
(* State-machine model of the spin-state engine of ebay-randomiser          *)
(* (src/src/lib/spin-state.ts) together with the catalog it reconciles      *)
(* against (src/src/lib/item-config.ts, src/src/app/api/items-config).      *)
(*                                                                         *)
(* Strings that the engine trims or lower-cases (auction numbers, user     *)
(* names, giveaway prize names) are sequences of one-character strings, so *)
(* that trim() and toLowerCase() are computed.  Item names are never       *)
(* transformed by the engine and are atomic strings.  An optional value    *)
(* (T | null) is the empty sequence (null) or a one-element sequence.      *)
(* The wall-clock fields updatedAt, spunAt and ranAt are not modelled.     *)
(***************************************************************************)
EXTENDS Integers, Sequences, FiniteSets, TLC

VARIABLES
    catalog,   \* expanded item list of data/items-config.txt (readConfigItems)
    store,     \* the persisted blob under SPIN_STATE_KEY: None or Some(state)
    last,      \* sequential runs: the last completed engine call and its outcome
    procs,     \* interleaved runs: per request, its position and local variables
    draws,     \* bookkeeping: the items of the draws that returned since the last pool restore
    started,   \* interleaved runs: the number of requests begun
    view       \* the polling page: its refs and whether its last load started the reel

vars == <<catalog, store, last, procs, draws, started, view>>

----------------------------------------------------------------------------
(* Optional values *)

None == <<>>
Some(x) == <<x>>
IsSome(o) == Len(o) = 1
Get(o) == o[1]

----------------------------------------------------------------------------
(* Strings: String.prototype.trim and toLowerCase on character sequences *)

IsSpace(c) == c \in {" ", "\t", "\n", "\r"}

RECURSIVE TrimStart(_)
TrimStart(s) ==
    IF s = <<>> THEN <<>>
    ELSE IF IsSpace(Head(s)) THEN TrimStart(Tail(s)) ELSE s

RECURSIVE TrimEnd(_)
TrimEnd(s) ==
    IF s = <<>> THEN <<>>
    ELSE IF IsSpace(s[Len(s)]) THEN TrimEnd(SubSeq(s, 1, Len(s) - 1)) ELSE s

Trim(s) == TrimEnd(TrimStart(s))

LowerChar(c) ==
    CASE c = "A" -> "a"
      [] c = "B" -> "b"
      [] c = "U" -> "u"
      [] OTHER -> c

ToLowerCase(s) == [i \in 1..Len(s) |-> LowerChar(s[i])]

----------------------------------------------------------------------------
(* Multisets of sequence elements *)

Count(seq, x) == Cardinality({i \in 1..Len(seq) : seq[i] = x})
Elems(seq) == {seq[i] : i \in 1..Len(seq)}
SubMultiset(a, b) == \A x \in Elems(a) : Count(a, x) <= Count(b, x)
SameMultiset(a, b) == SubMultiset(a, b) /\ SubMultiset(b, a)
RemoveAt(seq, i) == SubSeq(seq, 1, i - 1) \o SubSeq(seq, i + 1, Len(seq))
Take(seq, n) == SubSeq(seq, 1, IF Len(seq) < n THEN Len(seq) ELSE n)

----------------------------------------------------------------------------
(* Program constants *)

MAX_HISTORY == 200

----------------------------------------------------------------------------
(* item-config.ts: entries and their expansion *)

\* mutant: the inner loop stops one short (i < entry.qty - 1)
Repeat_OneShort(name, n) == [i \in 1..(n - 1) |-> name]

Repeat(name, n) == [i \in 1..n |-> name]

RECURSIVE expandItemEntries(_)
expandItemEntries(entries) ==
    IF entries = <<>> THEN <<>>
    ELSE Repeat(Head(entries).name, Head(entries).qty) \o expandItemEntries(Tail(entries))

RECURSIVE getTotalQty(_)
getTotalQty(entries) ==
    IF entries = <<>> THEN 0 ELSE Head(entries).qty + getTotalQty(Tail(entries))

----------------------------------------------------------------------------
(* item-config.ts: parseItemConfig.  A configuration text is a sequence of  *)
(* symbols: the characters of the separators, of QTY and of the quantity,   *)
(* and one symbol for each item name.                                       *)

\* Number(match[2]) for a match of \d+
Digits == <<"0", "1", "2", "3", "4", "5", "6", "7", "8", "9">>
IsDigit(c) == \E d \in 1..10 : Digits[d] = c
DigitValue(c) == (CHOOSE d \in 1..10 : Digits[d] = c) - 1

RECURSIVE ParseDigits(_)
ParseDigits(s) ==
    IF s = <<>> THEN 0
    ELSE 10 * ParseDigits(SubSeq(s, 1, Len(s) - 1)) + DigitValue(s[Len(s)])

\* text.split("\n")
RECURSIVE SplitLines(_)
SplitLines(text) ==
    IF \A i \in 1..Len(text) : text[i] # "\n" THEN <<text>>
    ELSE LET i == CHOOSE k \in 1..Len(text) :
                      text[k] = "\n" /\ \A j \in 1..(k - 1) : text[j] # "\n"
         IN <<SubSeq(text, 1, i - 1)>> \o SplitLines(SubSeq(text, i + 1, Len(text)))

\* .map((line) => line.trim()).filter(Boolean)
RECURSIVE TrimmedLines(_)
TrimmedLines(lines) ==
    IF lines = <<>> THEN <<>>
    ELSE IF Trim(Head(lines)) = <<>> THEN TrimmedLines(Tail(lines))
    ELSE <<Trim(Head(lines))>> \o TrimmedLines(Tail(lines))

AllSpace(line, from, to) == \A k \in from..to : IsSpace(line[k])

\* the line from position i + 1 on matches \s*-\s*QTY\s*(\d+)$ ignoring case;
\* the result is the set of positions where the digits can start
QtyStarts(line, i) ==
    { c \in (i + 1)..Len(line) :
        /\ \A k \in c..Len(line) : IsDigit(line[k])
        /\ \E a \in (i + 1)..Len(line) : \E b \in (a + 1)..Len(line) :
              /\ AllSpace(line, i + 1, a - 1)
              /\ line[a] = "-"
              /\ AllSpace(line, a + 1, b - 1)
              /\ b + 2 < c
              /\ line[b] \in {"Q", "q"} /\ line[b + 1] \in {"T", "t"} /\ line[b + 2] \in {"Y", "y"}
              /\ AllSpace(line, b + 3, c - 1) }

\* LINE_REGEX = /^(.*?)\s*-\s*QTY\s*(\d+)$/i: the lengths the first group can have
NameEnds(line) ==
    { i \in 0..Len(line) :
        /\ \A k \in 1..i : line[k] \notin {"\n", "\r"}
        /\ QtyStarts(line, i) # {} }

\* one line: the entry, or the error thrown.  The first group is lazy, so the
\* shortest one is taken; a trimmed first group of one symbol is that item name
parseLine(line) ==
    IF NameEnds(line) = {} THEN [ok |-> FALSE, error |-> "format"]
    ELSE LET Least(S) == CHOOSE x \in S : \A y \in S : x <= y
             i == Least(NameEnds(line))
             c == Least(QtyStarts(line, i))
             name == Trim(SubSeq(line, 1, i))
             qty == ParseDigits(SubSeq(line, c, Len(line)))
         IN IF name = <<>> THEN [ok |-> FALSE, error |-> "name"]
            ELSE IF qty < 1 THEN [ok |-> FALSE, error |-> "quantity"]
            ELSE [ok |-> TRUE, entry |-> [name |-> IF Len(name) = 1 THEN name[1] ELSE "Unlisted", qty |-> qty]]

\* the entries of the text, or the first error thrown
parseItemConfig(text) ==
    LET lines == TrimmedLines(SplitLines(text))
        parsed == [k \in 1..Len(lines) |-> parseLine(lines[k])]
    IN IF \E k \in 1..Len(lines) : ~parsed[k].ok
       THEN [ok |-> FALSE,
             error |-> parsed[CHOOSE k \in 1..Len(lines) :
                                 ~parsed[k].ok /\ \A j \in 1..(k - 1) : parsed[j].ok].error]
       ELSE IF lines = <<>> THEN [ok |-> FALSE, error |-> "empty"]
       ELSE [ok |-> TRUE, entries |-> [k \in 1..Len(lines) |-> parsed[k].entry]]

----------------------------------------------------------------------------
(* spin-state.ts: pure helpers *)

\* items.join("\n"); sha256 of it is taken as collision free, so the joined
\* text stands for its digest.
hashItems(items) ==
    IF items = <<>> THEN <<>>
    ELSE [i \in 1..(2 * Len(items) - 1) |->
             IF i % 2 = 1 THEN items[(i + 1) \div 2] ELSE "\n"]

\* mutant: the created state starts with nothing to draw
buildInitialState_EmptyPool(items, version) ==
    [ items |-> items,
      pool |-> <<>>,
      selectedItem |-> None,
      version |-> version,
      configHash |-> hashItems(items),
      isOffline |-> FALSE,
      isTestingMode |-> FALSE,
      lastSpin |-> None,
      history |-> <<>>,
      buyersGiveaway |-> None,
      currentBuyersGiveawayItem |-> None ]

buildInitialState(items, version) ==
    [ items |-> items,
      pool |-> items,
      selectedItem |-> None,
      version |-> version,
      configHash |-> hashItems(items),
      isOffline |-> FALSE,
      isTestingMode |-> FALSE,
      lastSpin |-> None,
      history |-> <<>>,
      buyersGiveaway |-> None,
      currentBuyersGiveawayItem |-> None ]

\* raw is a stored blob as JSON.parse returns it: a field is None when the
\* blob lacks it, Some(value) otherwise.  The fields that may hold null keep
\* their option (absent and null both read as null).
normalizeLegacyState(raw) ==
    LET items == IF IsSome(raw.items) THEN Get(raw.items) ELSE <<>>
    IN [ items |-> items,
         pool |-> IF IsSome(raw.pool) THEN Get(raw.pool) ELSE <<>>,
         selectedItem |-> raw.selectedItem,
         version |-> IF IsSome(raw.version) THEN Get(raw.version) ELSE 1,
         configHash |-> IF IsSome(raw.configHash) THEN Get(raw.configHash) ELSE hashItems(items),
         isOffline |-> IF IsSome(raw.isOffline) THEN Get(raw.isOffline) ELSE FALSE,
         isTestingMode |-> IF IsSome(raw.isTestingMode) THEN Get(raw.isTestingMode) ELSE FALSE,
         lastSpin |-> raw.lastSpin,
         history |-> IF IsSome(raw.history) THEN Get(raw.history) ELSE <<>>,
         buyersGiveaway |-> raw.buyersGiveaway,
         currentBuyersGiveawayItem |-> raw.currentBuyersGiveawayItem ]

sanitizeMeta(meta) ==
    [ auctionNumber |-> Trim(meta.auctionNumber),
      username |-> Trim(meta.username) ]

RECURSIVE WalkPool(_, _)
WalkPool(pool, remaining) ==
    IF pool = <<>> THEN TRUE
    ELSE LET item == Head(pool)
             count == IF item \in DOMAIN remaining THEN remaining[item] ELSE 0
         IN IF count <= 0 THEN FALSE
            ELSE WalkPool(Tail(pool),
                          [x \in DOMAIN remaining |->
                              IF x = item THEN count - 1 ELSE remaining[x]])

\* mutant: only membership is looked at, the counts are not
isPoolValidForItems_IgnoresCounts(pool, items) ==
    \A x \in Elems(pool) : x \in Elems(items)

\* mutant: the last remaining copy of a value is refused (count <= 1)
isPoolValidForItems_OffByOne(pool, items) ==
    \A x \in Elems(pool) : x \in Elems(items) /\ Count(pool, x) < Count(items, x)

\* remaining after the first loop: the count of each value of items
isPoolValidForItems(pool, items) ==
    WalkPool(pool, [x \in Elems(items) |-> Count(items, x)])

----------------------------------------------------------------------------
(* spin-state.ts: ensureState.  The result carries the state the caller goes *)
(* on with and whether writeStateToStore was called.                         *)

\* mutant: a rebuild keeps the stored pool instead of starting from the catalog
ensureState_KeepsPool(stored, configItems) ==
    IF ~IsSome(stored)
    THEN [state |-> buildInitialState(configItems, 1), wrote |-> TRUE]
    ELSE LET s == Get(stored)
         IN IF s.configHash # hashItems(configItems) \/ ~isPoolValidForItems(s.pool, configItems)
            THEN [state |-> [s EXCEPT !.items = configItems,
                                      !.selectedItem = None,
                                      !.version = s.version + 1,
                                      !.configHash = hashItems(configItems)],
                  wrote |-> TRUE]
            ELSE [state |-> s, wrote |-> FALSE]

\* mutant: a rebuild starts from buildInitialState and carries over the flags only
ensureState_DropsHistory(stored, configItems) ==
    IF ~IsSome(stored)
    THEN [state |-> buildInitialState(configItems, 1), wrote |-> TRUE]
    ELSE LET s == Get(stored)
         IN IF s.configHash # hashItems(configItems) \/ ~isPoolValidForItems(s.pool, configItems)
            THEN [state |-> [buildInitialState(configItems, s.version + 1) EXCEPT
                                !.isOffline = s.isOffline,
                                !.isTestingMode = s.isTestingMode],
                  wrote |-> TRUE]
            ELSE [state |-> s, wrote |-> FALSE]

\* mutant: only the configuration hash is compared, the pool is not checked
ensureState_NoPoolRepair(stored, configItems) ==
    IF ~IsSome(stored)
    THEN [state |-> buildInitialState(configItems, 1), wrote |-> TRUE]
    ELSE LET s == Get(stored)
         IN IF s.configHash # hashItems(configItems)
            THEN [state |-> [buildInitialState(configItems, s.version + 1) EXCEPT
                                !.isOffline = s.isOffline,
                                !.isTestingMode = s.isTestingMode,
                                !.history = s.history,
                                !.lastSpin = s.lastSpin,
                                !.buyersGiveaway = s.buyersGiveaway,
                                !.currentBuyersGiveawayItem = s.currentBuyersGiveawayItem],
                  wrote |-> TRUE]
            ELSE [state |-> s, wrote |-> FALSE]

ensureState(stored, configItems) ==
    IF ~IsSome(stored)
    THEN [state |-> buildInitialState(configItems, 1), wrote |-> TRUE]
    ELSE LET s == Get(stored)
             needsConfigRefresh == s.configHash # hashItems(configItems)
             needsPoolRepair == ~isPoolValidForItems(s.pool, configItems)
         IN IF needsConfigRefresh \/ needsPoolRepair
            THEN [state |-> [buildInitialState(configItems, s.version + 1) EXCEPT
                                !.isOffline = s.isOffline,
                                !.isTestingMode = s.isTestingMode,
                                !.history = s.history,
                                !.lastSpin = s.lastSpin,
                                !.buyersGiveaway = s.buyersGiveaway,
                                !.currentBuyersGiveawayItem = s.currentBuyersGiveawayItem],
                  wrote |-> TRUE]
            ELSE [state |-> s, wrote |-> FALSE]

----------------------------------------------------------------------------
(* spin-state.ts: the operations, each applied to the state ensureState      *)
(* returned.  outcome: "ok" (a next state was written and returned), "noop"  *)
(* (the state was returned without a write) or an error (the call threw).    *)

Thrown(state, error) == [outcome |-> error, state |-> state, wrote |-> FALSE]
Written(nextState) == [outcome |-> "ok", state |-> nextState, wrote |-> TRUE]

IsError(outcome) ==
    outcome \in { "required", "duplicate", "giveaway_item_required",
                  "giveaway_item_missing", "giveaway_no_entries" }

\* mutant: the comparison is case sensitive
AuctionExists_CaseSensitive(history, auctionNumber) ==
    \E i \in 1..Len(history) : history[i].auctionNumber = auctionNumber

\* history.some(record => record.auctionNumber.toLowerCase() === auction.toLowerCase())
AuctionExists(history, auctionNumber) ==
    \E i \in 1..Len(history) :
        ToLowerCase(history[i].auctionNumber) = ToLowerCase(auctionNumber)

\* mutant: the pool is filtered by value, so every copy of the drawn item leaves it
spinOnce_FilterByValue(state, meta, selectedIndex) ==
    LET cleanMeta == sanitizeMeta(meta) IN
    IF cleanMeta.auctionNumber = <<>> \/ cleanMeta.username = <<>>
    THEN Thrown(state, "required")
    ELSE IF ~state.isTestingMode /\ AuctionExists(state.history, cleanMeta.auctionNumber)
    THEN Thrown(state, "duplicate")
    ELSE IF Len(state.pool) = 0
    THEN [outcome |-> "noop", state |-> state, wrote |-> FALSE]
    ELSE LET selectedItem == state.pool[selectedIndex]
             record == [ auctionNumber |-> cleanMeta.auctionNumber,
                         username |-> cleanMeta.username,
                         item |-> selectedItem,
                         version |-> state.version + 1 ]
         IN Written([state EXCEPT
                        !.pool = SelectSeq(state.pool, LAMBDA x : x # selectedItem),
                        !.selectedItem = Some(selectedItem),
                        !.version = state.version + 1,
                        !.lastSpin = Some(record),
                        !.history = Take(<<record>> \o state.history, MAX_HISTORY)])

\* mutant: an empty pool is written back with a new version
spinOnce_EmptyPoolWrites(state, meta, selectedIndex) ==
    LET cleanMeta == sanitizeMeta(meta) IN
    IF cleanMeta.auctionNumber = <<>> \/ cleanMeta.username = <<>>
    THEN Thrown(state, "required")
    ELSE IF ~state.isTestingMode /\ AuctionExists(state.history, cleanMeta.auctionNumber)
    THEN Thrown(state, "duplicate")
    ELSE IF Len(state.pool) = 0
    THEN [outcome |-> "noop", state |-> [state EXCEPT !.version = state.version + 1],
          wrote |-> TRUE]
    ELSE LET selectedItem == state.pool[selectedIndex]
             record == [ auctionNumber |-> cleanMeta.auctionNumber,
                         username |-> cleanMeta.username,
                         item |-> selectedItem,
                         version |-> state.version + 1 ]
         IN Written([state EXCEPT
                        !.pool = RemoveAt(state.pool, selectedIndex),
                        !.selectedItem = Some(selectedItem),
                        !.version = state.version + 1,
                        !.lastSpin = Some(record),
                        !.history = Take(<<record>> \o state.history, MAX_HISTORY)])

\* mutant: the drawn entry stays in the pool
spinOnce_WithReplacement(state, meta, selectedIndex) ==
    LET cleanMeta == sanitizeMeta(meta) IN
    IF cleanMeta.auctionNumber = <<>> \/ cleanMeta.username = <<>>
    THEN Thrown(state, "required")
    ELSE IF ~state.isTestingMode /\ AuctionExists(state.history, cleanMeta.auctionNumber)
    THEN Thrown(state, "duplicate")
    ELSE IF Len(state.pool) = 0
    THEN [outcome |-> "noop", state |-> state, wrote |-> FALSE]
    ELSE LET selectedItem == state.pool[selectedIndex]
             record == [ auctionNumber |-> cleanMeta.auctionNumber,
                         username |-> cleanMeta.username,
                         item |-> selectedItem,
                         version |-> state.version + 1 ]
         IN Written([state EXCEPT
                        !.selectedItem = Some(selectedItem),
                        !.version = state.version + 1,
                        !.lastSpin = Some(record),
                        !.history = Take(<<record>> \o state.history, MAX_HISTORY)])

\* mutant: the record carries the version the draw started from
spinOnce_RecordOldVersion(state, meta, selectedIndex) ==
    LET cleanMeta == sanitizeMeta(meta) IN
    IF cleanMeta.auctionNumber = <<>> \/ cleanMeta.username = <<>>
    THEN Thrown(state, "required")
    ELSE IF ~state.isTestingMode /\ AuctionExists(state.history, cleanMeta.auctionNumber)
    THEN Thrown(state, "duplicate")
    ELSE IF Len(state.pool) = 0
    THEN [outcome |-> "noop", state |-> state, wrote |-> FALSE]
    ELSE LET selectedItem == state.pool[selectedIndex]
             record == [ auctionNumber |-> cleanMeta.auctionNumber,
                         username |-> cleanMeta.username,
                         item |-> selectedItem,
                         version |-> state.version ]
         IN Written([state EXCEPT
                        !.pool = RemoveAt(state.pool, selectedIndex),
                        !.selectedItem = Some(selectedItem),
                        !.version = state.version + 1,
                        !.lastSpin = Some(record),
                        !.history = Take(<<record>> \o state.history, MAX_HISTORY)])

\* mutant: the empty pool is looked at before the auction number and username
spinOnce_EmptyPoolFirst(state, meta, selectedIndex) ==
    LET cleanMeta == sanitizeMeta(meta) IN
    IF Len(state.pool) = 0
    THEN [outcome |-> "noop", state |-> state, wrote |-> FALSE]
    ELSE IF cleanMeta.auctionNumber = <<>> \/ cleanMeta.username = <<>>
    THEN Thrown(state, "required")
    ELSE IF ~state.isTestingMode /\ AuctionExists(state.history, cleanMeta.auctionNumber)
    THEN Thrown(state, "duplicate")
    ELSE LET selectedItem == state.pool[selectedIndex]
             record == [ auctionNumber |-> cleanMeta.auctionNumber,
                         username |-> cleanMeta.username,
                         item |-> selectedItem,
                         version |-> state.version + 1 ]
         IN Written([state EXCEPT
                        !.pool = RemoveAt(state.pool, selectedIndex),
                        !.selectedItem = Some(selectedItem),
                        !.version = state.version + 1,
                        !.lastSpin = Some(record),
                        !.history = Take(<<record>> \o state.history, MAX_HISTORY)])

\* mutant: the history grows without being cut to MAX_HISTORY
spinOnce_NoHistoryCut(state, meta, selectedIndex) ==
    LET cleanMeta == sanitizeMeta(meta) IN
    IF cleanMeta.auctionNumber = <<>> \/ cleanMeta.username = <<>>
    THEN Thrown(state, "required")
    ELSE IF ~state.isTestingMode /\ AuctionExists(state.history, cleanMeta.auctionNumber)
    THEN Thrown(state, "duplicate")
    ELSE IF Len(state.pool) = 0
    THEN [outcome |-> "noop", state |-> state, wrote |-> FALSE]
    ELSE LET selectedItem == state.pool[selectedIndex]
             record == [ auctionNumber |-> cleanMeta.auctionNumber,
                         username |-> cleanMeta.username,
                         item |-> selectedItem,
                         version |-> state.version + 1 ]
         IN Written([state EXCEPT
                        !.pool = RemoveAt(state.pool, selectedIndex),
                        !.selectedItem = Some(selectedItem),
                        !.version = state.version + 1,
                        !.lastSpin = Some(record),
                        !.history = <<record>> \o state.history])

\* selectedIndex is the value of randomInt(state.pool.length): 1..Len(pool) here
spinOnce(state, meta, selectedIndex) ==
    LET cleanMeta == sanitizeMeta(meta) IN
    IF cleanMeta.auctionNumber = <<>> \/ cleanMeta.username = <<>>
    THEN Thrown(state, "required")
    ELSE IF ~state.isTestingMode /\ AuctionExists(state.history, cleanMeta.auctionNumber)
    THEN Thrown(state, "duplicate")
    ELSE IF Len(state.pool) = 0
    THEN [outcome |-> "noop", state |-> state, wrote |-> FALSE]
    ELSE LET selectedItem == state.pool[selectedIndex]
             nextPool == RemoveAt(state.pool, selectedIndex)
             nextVersion == state.version + 1
             record == [ auctionNumber |-> cleanMeta.auctionNumber,
                         username |-> cleanMeta.username,
                         item |-> selectedItem,
                         version |-> nextVersion ]
         IN Written([state EXCEPT
                        !.pool = nextPool,
                        !.selectedItem = Some(selectedItem),
                        !.version = nextVersion,
                        !.lastSpin = Some(record),
                        !.history = Take(<<record>> \o state.history, MAX_HISTORY)])

\* mutant: the reset also wipes the audit trail
resetSpinState_ClearsHistory(state) ==
    Written([state EXCEPT
                !.pool = state.items,
                !.selectedItem = None,
                !.lastSpin = None,
                !.history = <<>>,
                !.version = state.version + 1])

resetSpinState(state) ==
    Written([state EXCEPT
                !.pool = state.items,
                !.selectedItem = None,
                !.version = state.version + 1])

\* mutant: the rebuilt state starts a new audit trail
resetSpinStateFromItems_DropsHistory(stored, items) ==
    LET nextState == buildInitialState(items, (IF IsSome(stored) THEN Get(stored).version ELSE 0) + 1)
    IN IF IsSome(stored)
       THEN Written([nextState EXCEPT
                        !.isOffline = Get(stored).isOffline,
                        !.isTestingMode = Get(stored).isTestingMode,
                        !.buyersGiveaway = Get(stored).buyersGiveaway,
                        !.currentBuyersGiveawayItem = Get(stored).currentBuyersGiveawayItem])
       ELSE Written(nextState)

\* reads the store directly (readStateFromStore), no ensureState
resetSpinStateFromItems(stored, items) ==
    LET nextState == buildInitialState(items, (IF IsSome(stored) THEN Get(stored).version ELSE 0) + 1)
    IN IF IsSome(stored)
       THEN Written([nextState EXCEPT
                        !.isOffline = Get(stored).isOffline,
                        !.isTestingMode = Get(stored).isTestingMode,
                        !.history = Get(stored).history,
                        !.lastSpin = Get(stored).lastSpin,
                        !.buyersGiveaway = Get(stored).buyersGiveaway,
                        !.currentBuyersGiveawayItem = Get(stored).currentBuyersGiveawayItem])
       ELSE Written(nextState)

\* mutant: the flag is flipped without a new version
setPublicOffline_NoVersionBump(state, isOffline) ==
    Written([state EXCEPT !.isOffline = isOffline])

\* mutant: the toggle also puts the drawn entries back
setPublicOffline_RestoresPool(state, isOffline) ==
    Written([state EXCEPT !.isOffline = isOffline, !.pool = state.items,
                          !.version = state.version + 1])

setPublicOffline(state, isOffline) ==
    Written([state EXCEPT !.isOffline = isOffline, !.version = state.version + 1])

\* mutant: a call that does not change the flag writes nothing
setTestingMode_SkipsWhenSame(state, isTestingMode) ==
    IF state.isTestingMode = isTestingMode
    THEN [outcome |-> "ok", state |-> state, wrote |-> FALSE]
    ELSE Written([state EXCEPT !.isTestingMode = isTestingMode, !.version = state.version + 1])

setTestingMode(state, isTestingMode) ==
    Written([state EXCEPT !.isTestingMode = isTestingMode, !.version = state.version + 1])

\* mutant: the wipe also refills the pool
clearSpinHistory_RestoresPool(state) ==
    Written([state EXCEPT
                !.pool = state.items,
                !.lastSpin = None,
                !.history = <<>>,
                !.selectedItem = None,
                !.buyersGiveaway = None,
                !.currentBuyersGiveawayItem = None,
                !.version = state.version + 1])

\* mutant: the item shown as selected survives the clearing of the history
clearSpinHistory_KeepsSelectedItem(state) ==
    Written([state EXCEPT
                !.lastSpin = None,
                !.history = <<>>,
                !.buyersGiveaway = None,
                !.currentBuyersGiveawayItem = None,
                !.version = state.version + 1])

clearSpinHistory(state) ==
    Written([state EXCEPT
                !.lastSpin = None,
                !.history = <<>>,
                !.selectedItem = None,
                !.buyersGiveaway = None,
                !.currentBuyersGiveawayItem = None,
                !.version = state.version + 1])

\* mutant: the giveaway result and the pending prize survive
resetPoolAndClearHistory_KeepsGiveaway(state) ==
    Written([state EXCEPT
                !.pool = state.items,
                !.selectedItem = None,
                !.lastSpin = None,
                !.history = <<>>,
                !.version = state.version + 1])

resetPoolAndClearHistory(state) ==
    Written([state EXCEPT
                !.pool = state.items,
                !.selectedItem = None,
                !.lastSpin = None,
                !.history = <<>>,
                !.buyersGiveaway = None,
                !.currentBuyersGiveawayItem = None,
                !.version = state.version + 1])

\* mutant: the name is stored as it was typed
setCurrentBuyersGiveawayItem_Untrimmed(state, itemName) ==
    IF Trim(itemName) = <<>>
    THEN Thrown(state, "giveaway_item_required")
    ELSE Written([state EXCEPT
                     !.currentBuyersGiveawayItem = Some(itemName),
                     !.version = state.version + 1])

\* mutant: the name is stored before it is validated
setCurrentBuyersGiveawayItem_WritesFirst(state, itemName) ==
    LET cleanItemName == Trim(itemName)
        nextState == [state EXCEPT !.currentBuyersGiveawayItem = Some(cleanItemName),
                                   !.version = state.version + 1]
    IN IF cleanItemName = <<>>
       THEN [outcome |-> "giveaway_item_required", state |-> nextState, wrote |-> TRUE]
       ELSE Written(nextState)

setCurrentBuyersGiveawayItem(state, itemName) ==
    LET cleanItemName == Trim(itemName) IN
    IF cleanItemName = <<>>
    THEN Thrown(state, "giveaway_item_required")
    ELSE Written([state EXCEPT
                     !.currentBuyersGiveawayItem = Some(cleanItemName),
                     !.version = state.version + 1])

\* itemName?.trim() || state.currentBuyersGiveawayItem?.trim() || ""
\* itemName is optional (None when the request carries no giveawayItemName)
ResolveGiveawayItem(state, itemName) ==
    IF IsSome(itemName) /\ Trim(Get(itemName)) # <<>>
    THEN Trim(Get(itemName))
    ELSE IF IsSome(state.currentBuyersGiveawayItem)
         THEN Trim(Get(state.currentBuyersGiveawayItem))
         ELSE <<>>

\* mutant: the pending prize stays set after the draw
runBuyersGiveaway_KeepsPending(state, itemName, winnerIndex) ==
    LET cleanItemName == ResolveGiveawayItem(state, itemName) IN
    IF cleanItemName = <<>>
    THEN Thrown(state, "giveaway_item_missing")
    ELSE IF Len(state.history) = 0
    THEN Thrown(state, "giveaway_no_entries")
    ELSE LET entries == [i \in 1..Len(state.history) |-> state.history[i].username]
             nextVersion == state.version + 1
         IN Written([state EXCEPT
                        !.buyersGiveaway = Some([ itemName |-> cleanItemName,
                                                  winnerUsername |-> entries[winnerIndex],
                                                  sourceEntryCount |-> Len(entries),
                                                  version |-> nextVersion ]),
                        !.version = nextVersion])

\* mutant: each user name enters the giveaway once
runBuyersGiveaway_Dedup(state, itemName, winnerIndex) ==
    LET cleanItemName == ResolveGiveawayItem(state, itemName) IN
    IF cleanItemName = <<>>
    THEN Thrown(state, "giveaway_item_missing")
    ELSE IF Len(state.history) = 0
    THEN Thrown(state, "giveaway_no_entries")
    ELSE LET names == {state.history[i].username : i \in 1..Len(state.history)}
             nextVersion == state.version + 1
         IN Written([state EXCEPT
                        !.buyersGiveaway = Some([ itemName |-> cleanItemName,
                                                  winnerUsername |-> state.history[winnerIndex].username,
                                                  sourceEntryCount |-> Cardinality(names),
                                                  version |-> nextVersion ]),
                        !.currentBuyersGiveawayItem = None,
                        !.version = nextVersion])

\* winnerIndex is the value of randomInt(entries.length): 1..Len(entries) here
runBuyersGiveaway(state, itemName, winnerIndex) ==
    LET cleanItemName == ResolveGiveawayItem(state, itemName) IN
    IF cleanItemName = <<>>
    THEN Thrown(state, "giveaway_item_missing")
    ELSE IF Len(state.history) = 0
    THEN Thrown(state, "giveaway_no_entries")
    ELSE LET entries == [i \in 1..Len(state.history) |-> state.history[i].username]
             nextVersion == state.version + 1
         IN Written([state EXCEPT
                        !.buyersGiveaway = Some([ itemName |-> cleanItemName,
                                                  winnerUsername |-> entries[winnerIndex],
                                                  sourceEntryCount |-> Len(entries),
                                                  version |-> nextVersion ]),
                        !.currentBuyersGiveawayItem = None,
                        !.version = nextVersion])

----------------------------------------------------------------------------
(* Bounds and inputs *)

MaxVersion == 4

ItemNames == {"Pack", "Box"}

\* contents of data/items-config.txt as parseItemConfig accepts them
ConfigChoices ==
    { << [name |-> "Pack", qty |-> 2], [name |-> "Box", qty |-> 1] >>,
      << [name |-> "Box", qty |-> 1] >> }

\* request bodies of the spin action: blank fields, padded fields, auction
\* numbers that differ in case only, two users
SpinInputs ==
    { [auctionNumber |-> <<" ">>, username |-> <<"u">>],
      [auctionNumber |-> <<"a">>, username |-> <<>>],
      [auctionNumber |-> <<"a">>, username |-> <<"u", " ">>],
      [auctionNumber |-> <<" ", "A", " ">>, username |-> <<"v">>],
      [auctionNumber |-> <<"b">>, username |-> <<"u">>] }
GiveawayNameInputs == { <<" ">>, <<" ", "g">> }

\* a blob with no field at all
EmptyBlob ==
    [ items |-> None, pool |-> None, selectedItem |-> None, version |-> None,
      configHash |-> None, isOffline |-> None, isTestingMode |-> None,
      lastSpin |-> None, history |-> None, buyersGiveaway |-> None,
      currentBuyersGiveawayItem |-> None ]

OldRecord == [auctionNumber |-> <<"a">>, username |-> <<"u">>, item |-> "Box", version |-> 2]

\* blobs found under SPIN_STATE_KEY that no run of this engine wrote: written
\* by an older release (fields missing) or edited by hand
StoredBlobs ==
    { \* no configHash; one Box more in the pool than in items
      [EmptyBlob EXCEPT !.items = Some(<<"Box">>), !.pool = Some(<<"Box", "Box">>),
                        !.version = Some(2), !.isOffline = Some(TRUE),
                        !.lastSpin = Some(OldRecord), !.history = Some(<<OldRecord>>),
                        !.selectedItem = Some("Box")],
      \* all fields; a Box of the pool was turned into a third Pack
      [EmptyBlob EXCEPT !.items = Some(<<"Pack", "Pack", "Box">>),
                        !.pool = Some(<<"Pack", "Pack", "Pack">>),
                        !.version = Some(2),
                        !.configHash = Some(hashItems(<<"Pack", "Pack", "Box">>)),
                        !.isOffline = Some(FALSE), !.isTestingMode = Some(TRUE),
                        !.history = Some(<<>>),
                        !.currentBuyersGiveawayItem = Some(<<"g">>)],
      \* a value in the pool that items does not have
      [EmptyBlob EXCEPT !.items = Some(<<"Box">>), !.pool = Some(<<"Pack">>),
                        !.version = Some(2)],
      \* items and pool only, the pool drawn empty
      [EmptyBlob EXCEPT !.items = Some(<<"Box">>), !.pool = Some(<<>>)],
      EmptyBlob }

\* readConfigItems: expandItemEntries(parseItemConfig(configText))
readConfigItems == expandItemEntries(catalog)

----------------------------------------------------------------------------
(* Sequential executions: every engine call runs to completion before the   *)
(* next one starts.                                                         *)

NoCall ==
    [ op |-> "none", arg |-> None, outcome |-> "none", pre |-> None,
      ensured |-> None, ensWrote |-> FALSE, wrote |-> FALSE, ret |-> None ]

NumProcs == 2
Procs == 1..NumProcs

\* a request that is not running
Idle == [pc |-> "idle", op |-> "none", arg |-> None, cfg |-> <<>>, st |-> None, outcome |-> "none"]

InitProcs == [p \in Procs |-> Idle]

\* the multiset of items drawn since the pool was last restored, as item -> count
NoDraws == [x \in ItemNames |-> 0]
AddDraw(d, item) == [d EXCEPT ![item] = @ + 1]
DrawCount(d) == d["Pack"] + d["Box"]
RestoresPool(opName) == opName \in {"resetSpinState", "resetPoolAndClearHistory"}
DrawsAfter(d, opName, e, r) ==
    LET base == IF e.wrote THEN NoDraws ELSE d
    IN IF opName = "spinOnce" /\ r.outcome = "ok" THEN AddDraw(base, Get(r.state.selectedItem))
       ELSE IF RestoresPool(opName) /\ r.wrote THEN NoDraws
       ELSE base

\* the page before its first load: versionRef and lastSpinVersionRef are null;
\* seen is the payload of the load before, kept for the properties
NoView == [versionRef |-> None, lastSpinVersionRef |-> None, spinStarted |-> FALSE, seen |-> None]

Init ==
    /\ catalog \in ConfigChoices
    /\ store = None
    /\ last = NoCall
    /\ procs = InitProcs
    /\ draws = NoDraws
    /\ started = 0
    /\ view = NoView

\* e: the result of ensureState, r: the result of the operation applied to e.state;
\* cap bounds the versions explored
CompleteWithin(cap, opName, arg, e, r) ==
    /\ r.state.version <= cap
    /\ store' = IF r.wrote THEN Some(r.state)
                ELSE IF e.wrote THEN Some(e.state)
                ELSE store
    /\ last' = [ op |-> opName, arg |-> arg, outcome |-> r.outcome, pre |-> store,
                 ensured |-> Some(e.state), ensWrote |-> e.wrote, wrote |-> r.wrote,
                 ret |-> IF IsError(r.outcome) THEN None ELSE Some(r.state) ]
    /\ draws' = DrawsAfter(draws, opName, e, r)
    /\ UNCHANGED <<catalog, procs, started, view>>

Complete(opName, arg, e, r) == CompleteWithin(MaxVersion, opName, arg, e, r)

Ensured == ensureState(store, readConfigItems)

\* randomInt(n) for n >= 1; not called when n = 0
RandomInt(n) == IF n = 0 THEN {1} ELSE 1..n

GetSpinState ==
    LET e == Ensured
    IN Complete("getSpinState", None, e, [outcome |-> "read", state |-> e.state, wrote |-> FALSE])

SpinOnce ==
    \E meta \in SpinInputs :
        \E selectedIndex \in RandomInt(Len(Ensured.state.pool)) :
            Complete("spinOnce", meta, Ensured, spinOnce(Ensured.state, meta, selectedIndex))

ResetSpinState ==
    LET e == Ensured
    IN Complete("resetSpinState", None, e, resetSpinState(e.state))

SetPublicOffline ==
    \E b \in BOOLEAN :
        Complete("setPublicOffline", b, Ensured, setPublicOffline(Ensured.state, b))

SetTestingMode ==
    \E b \in BOOLEAN :
        Complete("setTestingMode", b, Ensured, setTestingMode(Ensured.state, b))

ClearSpinHistory ==
    LET e == Ensured
    IN Complete("clearSpinHistory", None, e, clearSpinHistory(e.state))

ResetPoolAndClearHistory ==
    LET e == Ensured
    IN Complete("resetPoolAndClearHistory", None, e, resetPoolAndClearHistory(e.state))

SetCurrentBuyersGiveawayItem ==
    \E n \in GiveawayNameInputs :
        Complete("setCurrentBuyersGiveawayItem", n, Ensured,
                 setCurrentBuyersGiveawayItem(Ensured.state, n))

RunBuyersGiveaway ==
    \E n \in {None} \cup {Some(x) : x \in GiveawayNameInputs} :
        \E winnerIndex \in RandomInt(Len(Ensured.state.history)) :
            Complete("runBuyersGiveaway", n, Ensured,
                     runBuyersGiveaway(Ensured.state, n, winnerIndex))

\* the configuration file is replaced underneath the engine
CatalogEdit ==
    \E c \in ConfigChoices :
        /\ c # catalog
        /\ catalog' = c
        /\ last' = [NoCall EXCEPT !.op = "catalogEdit", !.pre = store]
        /\ UNCHANGED <<store, procs, draws, started, view>>

\* items-config PUT: writeItemConfigText, then resetSpinStateFromItems(expandedItems)
PutItemsConfig ==
    \E c \in ConfigChoices :
        LET r == resetSpinStateFromItems(store, expandItemEntries(c))
        IN /\ r.state.version <= MaxVersion
           /\ catalog' = c
           /\ store' = Some(r.state)
           /\ last' = [ op |-> "resetSpinStateFromItems", arg |-> expandItemEntries(c),
                        outcome |-> r.outcome, pre |-> store, ensured |-> None,
                        ensWrote |-> FALSE, wrote |-> r.wrote, ret |-> Some(r.state) ]
           /\ draws' = NoDraws
           /\ UNCHANGED <<procs, started, view>>

Next ==
    \/ GetSpinState
    \/ SpinOnce
    \/ ResetSpinState
    \/ SetPublicOffline
    \/ SetTestingMode
    \/ ClearSpinHistory
    \/ ResetPoolAndClearHistory
    \/ SetCurrentBuyersGiveawayItem
    \/ RunBuyersGiveaway
    \/ CatalogEdit
    \/ PutItemsConfig

Spec == Init /\ [][Next]_vars

\* the engine starts on a store that already holds a blob
RepairInit ==
    /\ catalog \in ConfigChoices
    /\ store \in {Some(normalizeLegacyState(raw)) : raw \in StoredBlobs}
    /\ last = NoCall
    /\ procs = InitProcs
    /\ draws = NoDraws
    /\ started = 0
    /\ view = NoView

RepairSpec == RepairInit /\ [][Next]_vars

----------------------------------------------------------------------------
(* Sequential executions late in a long session: the history holds           *)
(* MAX_HISTORY records, or one less.  The session that led here: the state  *)
(* was created (version 1), testing mode was set, on or off (2), and then   *)
(* each draw (a Box, for user w, under an auction number of its own) was    *)
(* followed by resetSpinState.                                              *)

HistMaxSteps == 3
HistMaxVersion == 2 * MAX_HISTORY + 1 + HistMaxSteps

\* the auction number of the k-th draw of that session: b, h002, h003, ...
HistAuction(k) ==
    LET digit == <<"0", "1", "2", "3", "4", "5", "6", "7", "8", "9">>
    IN IF k = 1 THEN <<"b">>
       ELSE <<"h", digit[(k \div 100) + 1], digit[((k \div 10) % 10) + 1], digit[(k % 10) + 1]>>

\* the record of the k-th draw of that session
HistRecord(k) ==
    [ auctionNumber |-> HistAuction(k),
      username |-> <<"w">>,
      item |-> "Box",
      version |-> 2 * k + 1 ]

\* the state after n draws, each followed by a reset
LongSessionState(n) ==
    [ buildInitialState(<<"Pack", "Pack", "Box">>, 2 * n + 2) EXCEPT
        !.isTestingMode = TRUE,
        !.lastSpin = Some(HistRecord(n)),
        !.history = [j \in 1..n |-> HistRecord(n - j + 1)] ]

HistInit ==
    /\ catalog = << [name |-> "Pack", qty |-> 2], [name |-> "Box", qty |-> 1] >>
    /\ store \in { Some([LongSessionState(n) EXCEPT !.isTestingMode = t]) :
                       n \in {MAX_HISTORY - 1, MAX_HISTORY}, t \in BOOLEAN }
    /\ last = NoCall
    /\ procs = InitProcs
    /\ draws = NoDraws
    /\ started = 0
    /\ view = NoView

HistGetSpinState ==
    LET e == Ensured
    IN CompleteWithin(HistMaxVersion, "getSpinState", None, e,
                      [outcome |-> "read", state |-> e.state, wrote |-> FALSE])

HistSpinOnce ==
    \E meta \in SpinInputs :
        \E selectedIndex \in RandomInt(Len(Ensured.state.pool)) :
            CompleteWithin(HistMaxVersion, "spinOnce", meta, Ensured,
                           spinOnce(Ensured.state, meta, selectedIndex))

HistResetSpinState ==
    LET e == Ensured
    IN CompleteWithin(HistMaxVersion, "resetSpinState", None, e, resetSpinState(e.state))

HistSetTestingMode ==
    \E b \in BOOLEAN :
        CompleteWithin(HistMaxVersion, "setTestingMode", b, Ensured,
                       setTestingMode(Ensured.state, b))

HistClearSpinHistory ==
    LET e == Ensured
    IN CompleteWithin(HistMaxVersion, "clearSpinHistory", None, e, clearSpinHistory(e.state))

HistNext ==
    \/ HistGetSpinState
    \/ HistSpinOnce
    \/ HistResetSpinState
    \/ HistSetTestingMode
    \/ HistClearSpinHistory

HistSpec == HistInit /\ [][HistNext]_vars

----------------------------------------------------------------------------
(* Sequential executions of one round: the state is created and then only   *)
(* drawn from and read; the catalog stays as it is and nothing is reset.    *)
(* The version cannot pass the number of entries plus one.                  *)

\* request bodies with four auction numbers, one of them in two spellings
DrainGetSpinState ==
    LET e == Ensured
    IN CompleteWithin(Len(e.state.items) + 1, "getSpinState", None, e,
                      [outcome |-> "read", state |-> e.state, wrote |-> FALSE])

DrainSpinOnce ==
    \E meta \in { [auctionNumber |-> <<"a">>, username |-> <<"u">>],
                  [auctionNumber |-> <<"A", " ">>, username |-> <<"v">>],
                  [auctionNumber |-> <<"b">>, username |-> <<"u">>],
                  [auctionNumber |-> <<"c">>, username |-> <<"v", " ">>],
                  [auctionNumber |-> <<"d">>, username |-> <<"u">>] } :
        \E selectedIndex \in RandomInt(Len(Ensured.state.pool)) :
            CompleteWithin(Len(Ensured.state.items) + 1, "spinOnce", meta, Ensured,
                           spinOnce(Ensured.state, meta, selectedIndex))

DrainNext ==
    \/ DrainGetSpinState
    \/ DrainSpinOnce

DrainSpec == Init /\ [][DrainNext]_vars

----------------------------------------------------------------------------
(* The spin-action route (POST): admin session check, action dispatch,      *)
(* owner password check of setTestingMode, type checks of the flags, and    *)
(* the status of the response.  One request at a time.                      *)

\* admin-auth.ts / owner-auth.ts safeEqual: same length and same bytes
safeEqual(a, b) == Len(a) = Len(b) /\ \A i \in 1..Len(a) : a[i] = b[i]

\* the hex digest createSessionToken computes from the configured admin
\* password and secret, as an opaque string
createSessionToken == <<"t", "k">>

\* token: the cookie value, None when the cookie is missing
verifySessionToken(token) ==
    IF token = None \/ Get(token) = <<>> THEN FALSE
    ELSE IF createSessionToken = <<>> THEN FALSE
    ELSE safeEqual(Get(token), createSessionToken)

\* mutant: the empty password passes when none is configured
verifyOwnerEditorPassword_NoEmptyCheck(expected, candidate) ==
    safeEqual(expected, candidate)

\* expected: getOwnerEditorPassword(), the value of OWNER_EDITOR_PASSWORD or ""
verifyOwnerEditorPassword(expected, candidate) ==
    IF expected = <<>> \/ candidate = <<>> THEN FALSE
    ELSE safeEqual(expected, candidate)

RouteMaxVersion == 3

\* a body without fields; a flag that is not a boolean is None
EmptyBody ==
    [ action |-> "none", auctionNumber |-> <<>>, username |-> <<>>, isOffline |-> None,
      isTestingMode |-> None, ownerPassword |-> <<>>, giveawayItemName |-> None ]

Flags == {None, Some(TRUE), Some(FALSE)}

RouteBodies ==
    { [EmptyBody EXCEPT !.action = "spin", !.auctionNumber = a, !.username = <<"u">>] :
          a \in {<<"a">>, <<>>} }
    \cup { [EmptyBody EXCEPT !.action = a] :
              a \in {"reset", "clearHistory", "resetPoolAndHistory", "runBuyersGiveaway", "bogus"} }
    \cup { [EmptyBody EXCEPT !.action = "setCurrentBuyersGiveawayItem",
                             !.giveawayItemName = Some(<<"g">>)] }
    \cup { [EmptyBody EXCEPT !.action = "setOffline", !.isOffline = f] : f \in Flags }
    \cup { [EmptyBody EXCEPT !.action = "setTestingMode", !.isTestingMode = f,
                             !.ownerPassword = pw] :
              f \in Flags, pw \in {<<>>, <<"p", "w">>, <<"p", "x">>} }
    \cup { [EmptyBody EXCEPT !.action = a, !.isTestingMode = Some(TRUE),
                             !.isOffline = Some(TRUE), !.ownerPassword = <<"p", "w">>] :
              a \in {"setOffline", "reset"} }

\* the cookie, the body, and the OWNER_EDITOR_PASSWORD the server runs with
RouteRequests ==
    [ token : {None, Some(<<"t", "k">>), Some(<<"t", "x">>)},
      body : RouteBodies,
      ownerEnv : {<<>>, <<"p", "w">>} ]

\* the response is sent without an engine call
RouteReply(status, req) ==
    /\ last' = [ op |-> "none", arg |-> None, outcome |-> "none", pre |-> store,
                 ensured |-> None, ensWrote |-> FALSE, wrote |-> FALSE, ret |-> None,
                 status |-> status, req |-> req ]
    /\ UNCHANGED <<catalog, store, procs, draws, started, view>>

\* the engine call runs; a thrown error is answered 500
RouteCall(opName, arg, e, r, req) ==
    /\ r.state.version <= RouteMaxVersion
    /\ store' = IF r.wrote THEN Some(r.state)
                ELSE IF e.wrote THEN Some(e.state)
                ELSE store
    /\ last' = [ op |-> opName, arg |-> arg, outcome |-> r.outcome, pre |-> store,
                 ensured |-> Some(e.state), ensWrote |-> e.wrote, wrote |-> r.wrote,
                 ret |-> IF IsError(r.outcome) THEN None ELSE Some(r.state),
                 status |-> IF IsError(r.outcome) THEN 500 ELSE 200, req |-> req ]
    /\ draws' = DrawsAfter(draws, opName, e, r)
    /\ UNCHANGED <<catalog, procs, started, view>>

Authorized(req, action) == verifySessionToken(req.token) /\ req.body.action = action

RouteUnauthorized ==
    \E req \in RouteRequests :
        ~verifySessionToken(req.token) /\ RouteReply(401, req)

RouteSpin ==
    \E req \in RouteRequests :
        /\ Authorized(req, "spin")
        /\ LET meta == [auctionNumber |-> req.body.auctionNumber, username |-> req.body.username]
           IN \E selectedIndex \in RandomInt(Len(Ensured.state.pool)) :
                 RouteCall("spinOnce", meta, Ensured, spinOnce(Ensured.state, meta, selectedIndex), req)

RouteReset ==
    \E req \in RouteRequests :
        Authorized(req, "reset") /\ RouteCall("resetSpinState", None, Ensured,
                                              resetSpinState(Ensured.state), req)

RouteSetOffline ==
    \E req \in RouteRequests :
        /\ Authorized(req, "setOffline")
        /\ IF req.body.isOffline = None THEN RouteReply(400, req)
           ELSE RouteCall("setPublicOffline", Get(req.body.isOffline), Ensured,
                          setPublicOffline(Ensured.state, Get(req.body.isOffline)), req)

RouteClearHistory ==
    \E req \in RouteRequests :
        Authorized(req, "clearHistory") /\ RouteCall("clearSpinHistory", None, Ensured,
                                                     clearSpinHistory(Ensured.state), req)

RouteResetPoolAndHistory ==
    \E req \in RouteRequests :
        Authorized(req, "resetPoolAndHistory")
            /\ RouteCall("resetPoolAndClearHistory", None, Ensured,
                         resetPoolAndClearHistory(Ensured.state), req)

RouteSetTestingMode ==
    \E req \in RouteRequests :
        /\ Authorized(req, "setTestingMode")
        /\ IF ~verifyOwnerEditorPassword(req.ownerEnv, req.body.ownerPassword)
           THEN RouteReply(403, req)
           ELSE IF req.body.isTestingMode = None THEN RouteReply(400, req)
           ELSE RouteCall("setTestingMode", Get(req.body.isTestingMode), Ensured,
                          setTestingMode(Ensured.state, Get(req.body.isTestingMode)), req)

RouteRunBuyersGiveaway ==
    \E req \in RouteRequests :
        /\ Authorized(req, "runBuyersGiveaway")
        /\ \E winnerIndex \in RandomInt(Len(Ensured.state.history)) :
              RouteCall("runBuyersGiveaway", req.body.giveawayItemName, Ensured,
                        runBuyersGiveaway(Ensured.state, req.body.giveawayItemName, winnerIndex),
                        req)

RouteSetCurrentBuyersGiveawayItem ==
    \E req \in RouteRequests :
        /\ Authorized(req, "setCurrentBuyersGiveawayItem")
        /\ LET name == IF req.body.giveawayItemName = None THEN <<>>
                       ELSE Get(req.body.giveawayItemName)
           IN RouteCall("setCurrentBuyersGiveawayItem", name, Ensured,
                        setCurrentBuyersGiveawayItem(Ensured.state, name), req)

RouteInvalidAction ==
    \E req \in RouteRequests :
        /\ verifySessionToken(req.token)
        /\ req.body.action \notin { "spin", "reset", "setOffline", "clearHistory",
                                    "resetPoolAndHistory", "setTestingMode",
                                    "runBuyersGiveaway", "setCurrentBuyersGiveawayItem" }
        /\ RouteReply(400, req)

RouteNext ==
    \/ RouteUnauthorized
    \/ RouteSpin
    \/ RouteReset
    \/ RouteSetOffline
    \/ RouteClearHistory
    \/ RouteResetPoolAndHistory
    \/ RouteSetTestingMode
    \/ RouteRunBuyersGiveaway
    \/ RouteSetCurrentBuyersGiveawayItem
    \/ RouteInvalidAction

RouteSpec == Init /\ [][RouteNext]_vars

----------------------------------------------------------------------------
(* The items-config route (PUT): admin session check, normalisation and     *)
(* parsing of the text, the checks against the staff catalog and the total, *)
(* and then the two writes.  One request at a time, together with the       *)
(* engine calls that show the state between two saves.                      *)

\* readStaffCatalog().map((item) => item.name)
StaffCatalogNames == {"Pack", "Box"}

\* body.configText.replace(/\r\n/g, "\n")
RECURSIVE ReplaceCrLf(_)
ReplaceCrLf(text) ==
    IF text = <<>> THEN <<>>
    ELSE IF Len(text) >= 2 /\ text[1] = "\r" /\ text[2] = "\n"
    THEN <<"\n">> \o ReplaceCrLf(SubSeq(text, 3, Len(text)))
    ELSE <<text[1]>> \o ReplaceCrLf(Tail(text))

Normalized(text) == Trim(ReplaceCrLf(text)) \o <<"\n">>

\* mutant: the total is not looked at
PUT_NoTotalCheck(req) ==
    IF ~verifySessionToken(req.token) THEN [status |-> 401, error |-> "unauthorized"]
    ELSE IF req.configText = None THEN [status |-> 400, error |-> "type"]
    ELSE LET parsed == parseItemConfig(Normalized(Get(req.configText)))
         IN IF ~parsed.ok THEN [status |-> 400, error |-> parsed.error]
            ELSE IF \E k \in 1..Len(parsed.entries) :
                       parsed.entries[k].name \notin StaffCatalogNames
            THEN [status |-> 400, error |-> "item"]
            ELSE [status |-> 200, error |-> "none", entries |-> parsed.entries]

\* the handler up to its first write: the status it answers with, and on 200
\* the entries it goes on to save
PUT(req) ==
    IF ~verifySessionToken(req.token) THEN [status |-> 401, error |-> "unauthorized"]
    ELSE IF req.configText = None THEN [status |-> 400, error |-> "type"]
    ELSE LET parsed == parseItemConfig(Normalized(Get(req.configText)))
         IN IF ~parsed.ok THEN [status |-> 400, error |-> parsed.error]
            ELSE IF \E k \in 1..Len(parsed.entries) :
                       parsed.entries[k].name \notin StaffCatalogNames
            THEN [status |-> 400, error |-> "item"]
            ELSE IF getTotalQty(parsed.entries) > 500
            THEN [status |-> 400, error |-> "total"]
            ELSE [status |-> 200, error |-> "none", entries |-> parsed.entries]

ConfigMaxVersion == 3
ConfigMaxIndex == 2

Qty(name, digits) == <<name, " ", "-", " ", "Q", "T", "Y", " ">> \o digits

\* texts sent to the route: two small catalogs (one in lower case with CRLF),
\* 500 entries, 501 entries, a name the staff catalog does not have, a line
\* without separator
ConfigRequests ==
    [ token : {None, Some(<<"t", "k">>)},
      configText :
          { None,
            Some(Qty("Pack", <<"2">>) \o <<"\n">> \o Qty("Box", <<"1">>)),
            Some(<<"Box", "-", "q", "t", "y", "1", "\r", "\n">>),
            Some(Qty("Pack", <<"5", "0", "0">>)),
            Some(Qty("Pack", <<"5", "0", "0">>) \o <<"\n">> \o Qty("Box", <<"1">>)),
            Some(Qty("Box", <<"1">>) \o <<"\n">> \o Qty("Ghost", <<"1">>)),
            Some(<<"Pack", " ", "Q", "T", "Y", " ", "2">>) } ]

\* the answers to the requests sent
ConfigAnswers == [req \in ConfigRequests |-> PUT(req)]

\* the request is answered without a write
ConfigPutRejected ==
    \E req \in ConfigRequests :
        /\ ConfigAnswers[req].status # 200
        /\ last' = [ op |-> "PUT", arg |-> None, outcome |-> ConfigAnswers[req].error, pre |-> store,
                     ensured |-> None, ensWrote |-> FALSE, wrote |-> FALSE, ret |-> None,
                     status |-> ConfigAnswers[req].status, req |-> Some(req), preCatalog |-> catalog ]
        /\ UNCHANGED <<catalog, store, procs, draws, started, view>>

\* writeItemConfigText(normalized), then resetSpinStateFromItems(expandedItems)
ConfigPutSaved ==
    \E req \in ConfigRequests :
        /\ ConfigAnswers[req].status = 200
        /\ LET entries == ConfigAnswers[req].entries
               r == resetSpinStateFromItems(store, expandItemEntries(entries))
           IN /\ r.state.version <= ConfigMaxVersion
              /\ catalog' = entries
              /\ store' = Some(r.state)
              /\ last' = [ op |-> "PUT", arg |-> None, outcome |-> r.outcome, pre |-> store,
                           ensured |-> None, ensWrote |-> FALSE, wrote |-> r.wrote,
                           ret |-> Some(r.state), status |-> 200, req |-> Some(req),
                           preCatalog |-> catalog ]
              /\ draws' = NoDraws
              /\ UNCHANGED <<procs, started, view>>

ConfigCall(opName, arg, e, r) ==
    /\ r.state.version <= ConfigMaxVersion
    /\ store' = IF r.wrote THEN Some(r.state)
                ELSE IF e.wrote THEN Some(e.state)
                ELSE store
    /\ last' = [ op |-> opName, arg |-> arg, outcome |-> r.outcome, pre |-> store,
                 ensured |-> Some(e.state), ensWrote |-> e.wrote, wrote |-> r.wrote,
                 ret |-> IF IsError(r.outcome) THEN None ELSE Some(r.state),
                 status |-> 200, req |-> None, preCatalog |-> catalog ]
    /\ draws' = DrawsAfter(draws, opName, e, r)
    /\ UNCHANGED <<catalog, procs, started, view>>

\* the draws looked at: the first ConfigMaxIndex positions of the pool
ConfigSpinOnce ==
    LET e == Ensured
    IN \E meta \in { [auctionNumber |-> <<"a">>, username |-> <<"u">>] } :
           \E selectedIndex \in {i \in RandomInt(Len(e.state.pool)) : i <= ConfigMaxIndex} :
               ConfigCall("spinOnce", meta, e, spinOnce(e.state, meta, selectedIndex))

ConfigNext ==
    \/ ConfigPutRejected
    \/ ConfigPutSaved
    \/ ConfigSpinOnce

ConfigSpec == Init /\ [][ConfigNext]_vars

----------------------------------------------------------------------------
(* The public page: every poll runs load, which fetches /api/spin-state     *)
(* (getSpinState behind it) and decides from versionRef and                 *)
(* lastSpinVersionRef whether to start the reel.  The admin page carries    *)
(* the same callback.                                                       *)

\* GET /api/spin-state: the fields of the payload the decision reads
Payload(state) ==
    [ isOffline |-> state.isOffline,
      selectedItem |-> state.selectedItem,
      lastSpin |-> state.lastSpin,
      version |-> state.version ]

\* load after a successful fetch; spinStarted: setIsSpinning(true) was reached
load(v, payload) ==
    IF payload.isOffline
    THEN [v EXCEPT !.versionRef = Some(payload.version), !.spinStarted = FALSE,
                   !.seen = Some(payload)]
    ELSE LET previousVersion == v.versionRef
             previousLastSpinVersion == v.lastSpinVersionRef
             currentLastSpinVersion ==
                 IF payload.lastSpin = None THEN None ELSE Some(Get(payload.lastSpin).version)
             hasNewSpin ==
                 /\ currentLastSpinVersion # None
                 /\ \/ previousLastSpinVersion = None
                    \/ Get(currentLastSpinVersion) > Get(previousLastSpinVersion)
         IN [ versionRef |-> Some(payload.version),
              lastSpinVersionRef |-> currentLastSpinVersion,
              spinStarted |-> /\ previousVersion # None
                              /\ payload.version > Get(previousVersion)
                              /\ payload.selectedItem # None
                              /\ hasNewSpin,
              seen |-> Some(payload) ]

\* one poll: the fetch (getSpinState, reconciliation included) and the callback
Load ==
    LET e == Ensured
    IN /\ e.state.version <= MaxVersion
       /\ store' = IF e.wrote THEN Some(e.state) ELSE store
       /\ last' = [ op |-> "load", arg |-> None, outcome |-> "read", pre |-> store,
                    ensured |-> Some(e.state), ensWrote |-> e.wrote, wrote |-> FALSE,
                    ret |-> Some(e.state) ]
       /\ draws' = DrawsAfter(draws, "getSpinState", e,
                              [outcome |-> "read", state |-> e.state, wrote |-> FALSE])
       /\ view' = load(view, Payload(e.state))
       /\ UNCHANGED <<catalog, procs, started>>

PollSpinOnce ==
    LET e == Ensured
    IN \E meta \in { [auctionNumber |-> <<"a">>, username |-> <<"u">>],
                     [auctionNumber |-> <<"b">>, username |-> <<"u">>] } :
           \E selectedIndex \in RandomInt(Len(e.state.pool)) :
               Complete("spinOnce", meta, e, spinOnce(e.state, meta, selectedIndex))

PollNext ==
    \/ Load
    \/ PollSpinOnce
    \/ ResetSpinState
    \/ SetPublicOffline
    \/ SetTestingMode
    \/ ClearSpinHistory
    \/ ResetPoolAndClearHistory
    \/ SetCurrentBuyersGiveawayItem
    \/ RunBuyersGiveaway

PollSpec == Init /\ [][PollNext]_vars

----------------------------------------------------------------------------
(* isPoolValidForItems on its own: a pool and an item list are chosen, and  *)
(* the function is applied to a reordering of each.                         *)

PoolMaxLen == 3

Reorderings(seq) ==
    { [i \in 1..Len(seq) |-> seq[f[i]]] :
        f \in {g \in [1..Len(seq) -> 1..Len(seq)] : \A i, j \in 1..Len(seq) : g[i] = g[j] => i = j} }

PoolValidInit ==
    /\ catalog = <<>>
    /\ store = None
    /\ \E n, m \in 0..PoolMaxLen :
       \E pool \in [1..n -> ItemNames], items \in [1..m -> ItemNames] :
           last = [ op |-> "none", pool |-> pool, items |-> items,
                    poolArg |-> pool, itemsArg |-> items, ret |-> FALSE ]
    /\ procs = InitProcs
    /\ draws = NoDraws
    /\ started = 0
    /\ view = NoView

PoolValidCall ==
    /\ last.op = "none"
    /\ \E pool \in Reorderings(last.pool), items \in Reorderings(last.items) :
           last' = [last EXCEPT !.op = "isPoolValidForItems",
                                !.poolArg = pool, !.itemsArg = items,
                                !.ret = isPoolValidForItems(pool, items)]
    /\ UNCHANGED <<catalog, store, procs, draws, started, view>>

PoolValidSpec == PoolValidInit /\ [][PoolValidCall]_vars

----------------------------------------------------------------------------
(* parseItemConfig, expandItemEntries and getTotalQty on their own: a text  *)
(* of up to ExpandMaxLines lines is parsed, and what the parser accepts is  *)
(* expanded and totalled.                                                   *)

ExpandMaxLines == 3

RECURSIVE TextOf(_)
TextOf(lines) ==
    IF lines = <<>> THEN <<>> ELSE Head(lines) \o <<"\n">> \o TextOf(Tail(lines))

\* lines for two names with the quantities 0, 1, 2 and 12
ExpandTexts ==
    LET lines == { Qty(name, digits) : name \in ItemNames,
                                       digits \in {<<"0">>, <<"1">>, <<"2">>, <<"1", "2">>} }
    IN UNION { {TextOf(ls) : ls \in [1..k -> lines]} : k \in 1..ExpandMaxLines }

ExpandInit ==
    /\ catalog = <<>>
    /\ store = None
    /\ \E text \in ExpandTexts :
           last = [ op |-> "none", text |-> text, ok |-> FALSE, entries |-> <<>>,
                    expanded |-> <<>>, total |-> 0 ]
    /\ procs = InitProcs
    /\ draws = NoDraws
    /\ started = 0
    /\ view = NoView

ExpandParse ==
    /\ last.op = "none"
    /\ LET parsed == parseItemConfig(last.text)
       IN last' = [last EXCEPT !.op = "parseItemConfig",
                               !.ok = parsed.ok,
                               !.entries = IF parsed.ok THEN parsed.entries ELSE <<>>]
    /\ UNCHANGED <<catalog, store, procs, draws, started, view>>

ExpandCall ==
    /\ last.op = "parseItemConfig"
    /\ last.ok
    /\ last' = [last EXCEPT !.op = "expandItemEntries",
                            !.expanded = expandItemEntries(last.entries),
                            !.total = getTotalQty(last.entries)]
    /\ UNCHANGED <<catalog, store, procs, draws, started, view>>

ExpandNext == ExpandParse \/ ExpandCall

ExpandSpec == ExpandInit /\ [][ExpandNext]_vars

----------------------------------------------------------------------------
(* Bulk draw.  spin-state.ts as found has no spinBulk and no                *)
(* recentBulkResults field; the callers are there (the bulkSpin request of  *)
(* public-spin-view.tsx, the recentBulkResults projection of the public     *)
(* state route).  This section follows the design document, sections 3,     *)
(* 4.1, 4.3 and 4.4: the state of these executions is the state above with  *)
(* one more field, recentBulkResults.                                       *)

\* the positive integer a string of digits denotes; 0 when the string is not one
parsePositiveInt(s) ==
    IF s # <<>> /\ \A i \in 1..Len(s) : IsDigit(s[i]) THEN ParseDigits(s) ELSE 0

\* the decimal digits of n >= 0
RECURSIVE FormatInt(_)
FormatInt(n) ==
    IF n < 10 THEN <<Digits[n + 1]>>
    ELSE FormatInt(n \div 10) \o <<Digits[(n % 10) + 1]>>

Reverse(seq) == [i \in 1..Len(seq) |-> seq[Len(seq) + 1 - i]]

\* state with the field recentBulkResults set to bulk
WithBulk(state, bulk) ==
    [f \in DOMAIN state \cup {"recentBulkResults"} |->
        IF f = "recentBulkResults" THEN bulk ELSE state[f]]

\* reconciliation (4.1): created with no bulk results; a rebuild preserves them
ensureStateBulk(stored, configItems) ==
    LET e == ensureState(stored, configItems)
    IN [ state |-> WithBulk(e.state, IF IsSome(stored) THEN Get(stored).recentBulkResults ELSE <<>>),
         wrote |-> e.wrote ]

\* clearSpinHistory (4.4) clears the bulk results as well
clearSpinHistoryBulk(state) ==
    LET r == clearSpinHistory(state)
    IN [r EXCEPT !.state = WithBulk(r.state, <<>>)]

\* resetPoolAndClearHistory (4.4) clears the bulk results as well
resetPoolAndClearHistoryBulk(state) ==
    LET r == resetPoolAndClearHistory(state)
    IN [r EXCEPT !.state = WithBulk(r.state, <<>>)]

BulkIsError(outcome) ==
    IsError(outcome) \/ outcome \in {"bulk_start_invalid", "bulk_count_invalid"}

\* the draws of one batch, one per element of choices (the values of randomInt),
\* against a working copy of the pool; acc collects the records in draw order
RECURSIVE BulkDraw(_, _, _, _, _, _)
BulkDraw(pool, version, number, username, choices, acc) ==
    IF choices = <<>> THEN [pool |-> pool, version |-> version, results |-> acc]
    ELSE LET selectedIndex == Head(choices)
             record == [ auctionNumber |-> FormatInt(number),
                         username |-> username,
                         item |-> pool[selectedIndex],
                         version |-> version + 1 ]
         IN BulkDraw(RemoveAt(pool, selectedIndex), version + 1, number + 1, username,
                     Tail(choices), Append(acc, record))

NoResults(outcome, state) ==
    [outcome |-> outcome, state |-> state, wrote |-> FALSE, results |-> <<>>]

\* mutant: the collision check stops at the first number of the batch
spinBulk_ChecksFirstOnly(state, auctionNumberStart, username, count, choices) ==
    LET start == parsePositiveInt(Trim(auctionNumberStart))
        cleanUsername == Trim(username)
    IN IF cleanUsername = <<>> THEN NoResults("required", state)
       ELSE IF start = 0 THEN NoResults("bulk_start_invalid", state)
       ELSE IF count < 1 \/ count > 10 THEN NoResults("bulk_count_invalid", state)
       ELSE IF ~state.isTestingMode /\ AuctionExists(state.history, FormatInt(start))
       THEN NoResults("duplicate", state)
       ELSE IF Len(state.pool) = 0 THEN NoResults("noop", state)
       ELSE LET b == BulkDraw(state.pool, state.version, start, cleanUsername, choices, <<>>)
                final == b.results[Len(b.results)]
            IN [ outcome |-> "ok", wrote |-> TRUE, results |-> b.results,
                 state |-> [state EXCEPT
                              !.pool = b.pool,
                              !.selectedItem = Some(final.item),
                              !.version = b.version,
                              !.lastSpin = Some(final),
                              !.history = Take(Reverse(b.results) \o state.history, MAX_HISTORY),
                              !.recentBulkResults = b.results] ]

\* mutant: the batch is added to the stored results
spinBulk_AppendsResults(state, auctionNumberStart, username, count, choices) ==
    LET start == parsePositiveInt(Trim(auctionNumberStart))
        cleanUsername == Trim(username)
    IN IF cleanUsername = <<>> THEN NoResults("required", state)
       ELSE IF start = 0 THEN NoResults("bulk_start_invalid", state)
       ELSE IF count < 1 \/ count > 10 THEN NoResults("bulk_count_invalid", state)
       ELSE IF ~state.isTestingMode /\
               \E i \in 0..(count - 1) : AuctionExists(state.history, FormatInt(start + i))
       THEN NoResults("duplicate", state)
       ELSE IF Len(state.pool) = 0 THEN NoResults("noop", state)
       ELSE LET b == BulkDraw(state.pool, state.version, start, cleanUsername, choices, <<>>)
                final == b.results[Len(b.results)]
            IN [ outcome |-> "ok", wrote |-> TRUE, results |-> b.results,
                 state |-> [state EXCEPT
                              !.pool = b.pool,
                              !.selectedItem = Some(final.item),
                              !.version = b.version,
                              !.lastSpin = Some(final),
                              !.history = Take(Reverse(b.results) \o state.history, MAX_HISTORY),
                              !.recentBulkResults = state.recentBulkResults \o b.results] ]

\* mutant: the whole batch is written as one version step
spinBulk_OneVersionStep(state, auctionNumberStart, username, count, choices) ==
    LET start == parsePositiveInt(Trim(auctionNumberStart))
        cleanUsername == Trim(username)
    IN IF cleanUsername = <<>> THEN NoResults("required", state)
       ELSE IF start = 0 THEN NoResults("bulk_start_invalid", state)
       ELSE IF count < 1 \/ count > 10 THEN NoResults("bulk_count_invalid", state)
       ELSE IF ~state.isTestingMode /\
               \E i \in 0..(count - 1) : AuctionExists(state.history, FormatInt(start + i))
       THEN NoResults("duplicate", state)
       ELSE IF Len(state.pool) = 0 THEN NoResults("noop", state)
       ELSE LET b == BulkDraw(state.pool, state.version, start, cleanUsername, choices, <<>>)
                stamped == [i \in 1..Len(b.results) |->
                               [b.results[i] EXCEPT !.version = state.version + 1]]
                final == stamped[Len(stamped)]
            IN [ outcome |-> "ok", wrote |-> TRUE, results |-> stamped,
                 state |-> [state EXCEPT
                              !.pool = b.pool,
                              !.selectedItem = Some(final.item),
                              !.version = state.version + 1,
                              !.lastSpin = Some(final),
                              !.history = Take(Reverse(stamped) \o state.history, MAX_HISTORY),
                              !.recentBulkResults = stamped] ]

\* spinBulk (4.3).  choices holds min(count, pool.length) random indices, the
\* i-th one into a pool that has lost i - 1 entries.
spinBulk(state, auctionNumberStart, username, count, choices) ==
    LET start == parsePositiveInt(Trim(auctionNumberStart))
        cleanUsername == Trim(username)
    IN IF cleanUsername = <<>> THEN NoResults("required", state)
       ELSE IF start = 0 THEN NoResults("bulk_start_invalid", state)
       ELSE IF count < 1 \/ count > 10 THEN NoResults("bulk_count_invalid", state)
       ELSE IF ~state.isTestingMode /\
               \E i \in 0..(count - 1) : AuctionExists(state.history, FormatInt(start + i))
       THEN NoResults("duplicate", state)
       ELSE IF Len(state.pool) = 0 THEN NoResults("noop", state)
       ELSE LET b == BulkDraw(state.pool, state.version, start, cleanUsername, choices, <<>>)
                final == b.results[Len(b.results)]
            IN [ outcome |-> "ok", wrote |-> TRUE, results |-> b.results,
                 state |-> [state EXCEPT
                              !.pool = b.pool,
                              !.selectedItem = Some(final.item),
                              !.version = b.version,
                              !.lastSpin = Some(final),
                              !.history = Take(Reverse(b.results) \o state.history, MAX_HISTORY),
                              !.recentBulkResults = b.results] ]

BulkMaxVersion == 4

\* bodies of the bulkSpin request: a batch that fits, batches larger than the
\* pool, a start that carries into two digits, counts out of range, a start
\* that is no number or not positive, a blank user name
BulkInputs ==
    { [auctionNumberStart |-> <<"1">>, username |-> <<"u">>, count |-> 2],
      [auctionNumberStart |-> <<"1">>, username |-> <<"u">>, count |-> 4],
      [auctionNumberStart |-> <<" ", "9">>, username |-> <<"u", " ">>, count |-> 2],
      [auctionNumberStart |-> <<"3">>, username |-> <<"v">>, count |-> 10],
      [auctionNumberStart |-> <<"3">>, username |-> <<"v">>, count |-> 11],
      [auctionNumberStart |-> <<"3">>, username |-> <<"v">>, count |-> 0],
      [auctionNumberStart |-> <<"x">>, username |-> <<"u">>, count |-> 1],
      [auctionNumberStart |-> <<"0">>, username |-> <<"u">>, count |-> 1],
      [auctionNumberStart |-> <<"3">>, username |-> <<" ">>, count |-> 1] }

\* single draws between the batches, with numbers the batches run into
BulkSpinInputs ==
    { [auctionNumber |-> <<"2">>, username |-> <<"u">>],
      [auctionNumber |-> <<" ", "1", "0">>, username |-> <<"v">>] }

\* the index sequences randomInt can return over k draws from a pool of n
BulkChoices(n, k) ==
    {c \in [1..k -> 1..n] : \A i \in 1..k : c[i] <= n - i + 1}

BulkEnsured == ensureStateBulk(store, readConfigItems)

BulkComplete(opName, arg, e, r, results) ==
    /\ r.state.version <= BulkMaxVersion
    /\ store' = IF r.wrote THEN Some(r.state)
                ELSE IF e.wrote THEN Some(e.state)
                ELSE store
    /\ last' = [ op |-> opName, arg |-> arg, outcome |-> r.outcome, pre |-> store,
                 ensured |-> Some(e.state), ensWrote |-> e.wrote, wrote |-> r.wrote,
                 ret |-> IF BulkIsError(r.outcome) THEN None ELSE Some(r.state),
                 results |-> results ]
    /\ UNCHANGED <<catalog, procs, draws, started, view>>

BulkGetSpinState ==
    LET e == BulkEnsured
    IN BulkComplete("getSpinState", None, e,
                    [outcome |-> "read", state |-> e.state, wrote |-> FALSE], <<>>)

BulkSpinOnce ==
    \E meta \in BulkSpinInputs :
        \E selectedIndex \in RandomInt(Len(BulkEnsured.state.pool)) :
            BulkComplete("spinOnce", meta, BulkEnsured,
                         spinOnce(BulkEnsured.state, meta, selectedIndex), <<>>)

BulkSpinBulk ==
    \E in \in BulkInputs :
        LET e == BulkEnsured
            n == Len(e.state.pool)
        IN \E choices \in BulkChoices(n, IF in.count < n THEN in.count ELSE n) :
              LET r == spinBulk(e.state, in.auctionNumberStart, in.username, in.count, choices)
              IN BulkComplete("spinBulk", in, e, r, r.results)

BulkResetSpinState ==
    LET e == BulkEnsured
    IN BulkComplete("resetSpinState", None, e, resetSpinState(e.state), <<>>)

BulkSetTestingMode ==
    \E b \in BOOLEAN :
        BulkComplete("setTestingMode", b, BulkEnsured, setTestingMode(BulkEnsured.state, b), <<>>)

BulkClearSpinHistory ==
    LET e == BulkEnsured
    IN BulkComplete("clearSpinHistory", None, e, clearSpinHistoryBulk(e.state), <<>>)

BulkResetPoolAndClearHistory ==
    LET e == BulkEnsured
    IN BulkComplete("resetPoolAndClearHistory", None, e, resetPoolAndClearHistoryBulk(e.state), <<>>)

BulkCatalogEdit ==
    \E c \in ConfigChoices :
        /\ c # catalog
        /\ catalog' = c
        /\ last' = [NoCall EXCEPT !.op = "catalogEdit", !.pre = store]
        /\ UNCHANGED <<store, procs, draws, started, view>>

BulkNext ==
    \/ BulkGetSpinState
    \/ BulkSpinOnce
    \/ BulkSpinBulk
    \/ BulkResetSpinState
    \/ BulkSetTestingMode
    \/ BulkClearSpinHistory
    \/ BulkResetPoolAndClearHistory
    \/ BulkCatalogEdit

BulkSpec == Init /\ [][BulkNext]_vars

----------------------------------------------------------------------------
(* Interleaved executions: NumProcs requests run at once.  A request gives  *)
(* way to the others at each await: after readConfigItems, after            *)
(* readStateFromStore, after the writeStateToStore of ensureState and after *)
(* the writeStateToStore of the operation.  What lies between two awaits is *)
(* one step.                                                                *)

MaxCalls == 3

ConcCalls ==
    { [op |-> "getSpinState", arg |-> None],
      [op |-> "spinOnce", arg |-> [auctionNumber |-> <<"a">>, username |-> <<"u">>]],
      [op |-> "spinOnce", arg |-> [auctionNumber |-> <<"A", " ">>, username |-> <<"v">>]],
      [op |-> "spinOnce", arg |-> [auctionNumber |-> <<"b">>, username |-> <<" ">>]],
      [op |-> "resetSpinState", arg |-> None],
      [op |-> "setPublicOffline", arg |-> TRUE],
      [op |-> "setPublicOffline", arg |-> FALSE],
      [op |-> "setTestingMode", arg |-> TRUE],
      [op |-> "setTestingMode", arg |-> FALSE],
      [op |-> "clearSpinHistory", arg |-> None],
      [op |-> "resetPoolAndClearHistory", arg |-> None],
      [op |-> "setCurrentBuyersGiveawayItem", arg |-> <<"g">>],
      [op |-> "runBuyersGiveaway", arg |-> None] }

\* the operation of a call, applied to the state its ensureState returned
ApplyOp(opName, arg, state, index) ==
    CASE opName = "getSpinState" -> [outcome |-> "read", state |-> state, wrote |-> FALSE]
      [] opName = "spinOnce" -> spinOnce(state, arg, index)
      [] opName = "resetSpinState" -> resetSpinState(state)
      [] opName = "setPublicOffline" -> setPublicOffline(state, arg)
      [] opName = "setTestingMode" -> setTestingMode(state, arg)
      [] opName = "clearSpinHistory" -> clearSpinHistory(state)
      [] opName = "resetPoolAndClearHistory" -> resetPoolAndClearHistory(state)
      [] opName = "setCurrentBuyersGiveawayItem" -> setCurrentBuyersGiveawayItem(state, arg)
      [] opName = "runBuyersGiveaway" -> runBuyersGiveaway(state, arg, index)

\* the range of the random index the operation asks for
IndexRange(opName, state) ==
    IF opName = "spinOnce" THEN RandomInt(Len(state.pool))
    ELSE IF opName = "runBuyersGiveaway" THEN RandomInt(Len(state.history))
    ELSE {1}

\* a request for one of the calls arrives; ensureState reads the configuration
BeginWithin(calls, p) ==
    /\ procs[p].pc = "idle"
    /\ started < MaxCalls
    /\ started' = started + 1
    /\ \E c \in calls :
          procs' = [procs EXCEPT ![p] = [ pc |-> "readStore", op |-> c.op, arg |-> c.arg,
                                          cfg |-> readConfigItems, st |-> None,
                                          outcome |-> "none" ]]
    /\ UNCHANGED <<catalog, store, last, draws, view>>

Begin(p) == BeginWithin(ConcCalls, p)

\* ensureState reads the store and decides whether to create or rebuild
ReadStore(p) ==
    /\ procs[p].pc = "readStore"
    /\ LET e == ensureState(store, procs[p].cfg)
       IN procs' = [procs EXCEPT ![p].st = Some(e.state),
                                    ![p].pc = IF e.wrote THEN "ensureWrite" ELSE "apply"]
    /\ UNCHANGED <<catalog, store, last, draws, started, view>>

\* ensureState writes the created or rebuilt state
EnsureWrite(p) ==
    /\ procs[p].pc = "ensureWrite"
    /\ store' = procs[p].st
    /\ draws' = NoDraws
    /\ procs' = [procs EXCEPT ![p].pc = "apply"]
    /\ UNCHANGED <<catalog, last, started, view>>

\* Apply, were a write to keep the history records persisted since the read
Apply_MergesHistory(p) ==
    /\ procs[p].pc = "apply"
    /\ \E index \in IndexRange(procs[p].op, Get(procs[p].st)) :
          LET r == ApplyOp(procs[p].op, procs[p].arg, Get(procs[p].st), index)
              merged == IF procs[p].op = "spinOnce" /\ r.outcome = "ok" /\ IsSome(store)
                        THEN [r.state EXCEPT !.history =
                                 Take(<<r.state.history[1]>> \o Get(store).history, MAX_HISTORY)]
                        ELSE r.state
          IN /\ store' = IF r.wrote THEN Some(merged) ELSE store
             /\ draws' = IF procs[p].op = "spinOnce" /\ r.outcome = "ok"
                         THEN AddDraw(draws, Get(r.state.selectedItem))
                         ELSE IF RestoresPool(procs[p].op) /\ r.wrote THEN NoDraws
                         ELSE draws
             /\ procs' = [procs EXCEPT ![p].pc = "done", ![p].st = Some(r.state),
                                       ![p].outcome = r.outcome]
    /\ UNCHANGED <<catalog, last, started, view>>

\* the operation itself: it throws, returns, or writes its next state
Apply(p) ==
    /\ procs[p].pc = "apply"
    /\ \E index \in IndexRange(procs[p].op, Get(procs[p].st)) :
          LET r == ApplyOp(procs[p].op, procs[p].arg, Get(procs[p].st), index)
          IN /\ store' = IF r.wrote THEN Some(r.state) ELSE store
             /\ draws' = IF procs[p].op = "spinOnce" /\ r.outcome = "ok"
                         THEN AddDraw(draws, Get(r.state.selectedItem))
                         ELSE IF RestoresPool(procs[p].op) /\ r.wrote THEN NoDraws
                         ELSE draws
             /\ procs' = [procs EXCEPT ![p].pc = "done", ![p].st = Some(r.state),
                                       ![p].outcome = r.outcome]
    /\ UNCHANGED <<catalog, last, started, view>>

\* the response is sent
Return(p) ==
    /\ procs[p].pc = "done"
    /\ procs' = [procs EXCEPT ![p] = Idle]
    /\ UNCHANGED <<catalog, store, last, draws, started, view>>

ConcNext ==
    \E p \in Procs :
        \/ Begin(p)
        \/ ReadStore(p)
        \/ EnsureWrite(p)
        \/ Apply(p)
        \/ Return(p)

ConcInit ==
    /\ catalog = << [name |-> "Pack", qty |-> 2], [name |-> "Box", qty |-> 1] >>
    /\ store = None
    /\ last = NoCall
    /\ procs = InitProcs
    /\ draws = NoDraws
    /\ started = 0
    /\ view = NoView

ConcSpec == ConcInit /\ [][ConcNext]_vars

(* Interleaved executions of a deployment whose operator never switches    *)
(* testing mode on: the same requests, setTestingMode(true) left out.       *)

NoTestCalls == { c \in ConcCalls : ~(c.op = "setTestingMode" /\ c.arg = TRUE) }

NoTestBegin(p) == BeginWithin(NoTestCalls, p)

NoTestNext ==
    \E p \in Procs :
        \/ NoTestBegin(p)
        \/ ReadStore(p)
        \/ EnsureWrite(p)
        \/ Apply(p)
        \/ Return(p)

NoTestSpec == ConcInit /\ [][NoTestNext]_vars


----------------------------------------------------------------------------
(* Properties of sequential executions.  Pre is the persisted state when the *)
(* last call started, Ens the state its ensureState returned, Cur the        *)
(* persisted state now.                                                      *)

Pre == Get(last.pre)
Ens == Get(last.ensured)
Cur == Get(store)

UsesEnsureState(opName) ==
    opName \in { "getSpinState", "spinOnce", "resetSpinState", "setPublicOffline",
                 "setTestingMode", "clearSpinHistory", "resetPoolAndClearHistory",
                 "setCurrentBuyersGiveawayItem", "runBuyersGiveaway" }

AlwaysMutates(opName) ==
    opName \in { "resetSpinState", "setPublicOffline", "setTestingMode",
                 "clearSpinHistory", "resetPoolAndClearHistory" }

\* the stored state is present and agrees with the catalog the call read
ConsistentWithCatalog(stored) ==
    /\ IsSome(stored)
    /\ Get(stored).configHash = hashItems(readConfigItems)
    /\ SubMultiset(Get(stored).pool, readConfigItems)

\* some record of the history carries this auction number, ignoring case
HistoryHasAuction(history, auctionNumber) ==
    \E i \in 1..Len(history) :
        /\ Len(history[i].auctionNumber) = Len(auctionNumber)
        /\ \A k \in 1..Len(auctionNumber) :
              LowerChar(history[i].auctionNumber[k]) = LowerChar(auctionNumber[k])

Blank(s) == \A i \in 1..Len(s) : IsSpace(s[i])

\* s without its leading and trailing white space, stated without recursion
Trimmed(s) ==
    IF Blank(s) THEN <<>>
    ELSE LET first == CHOOSE i \in 1..Len(s) : ~IsSpace(s[i]) /\ \A j \in 1..(i - 1) : IsSpace(s[j])
             lastc == CHOOSE i \in 1..Len(s) : ~IsSpace(s[i]) /\ \A j \in (i + 1)..Len(s) : IsSpace(s[j])
         IN SubSeq(s, first, lastc)

(* C1: in every persisted state the pool is a sub-multiset of items: no value
   occurs more often in pool than in items. *)
C1_PoolSubMultisetOfItems ==
    IsSome(store) => SubMultiset(Cur.pool, Cur.items)

\* a draw made right after a changed catalog was reconciled
C1_Witness ==
    /\ IsSome(store)
    /\ last.op = "spinOnce" /\ last.outcome = "ok" /\ last.ensWrote
    /\ IsSome(last.pre) /\ Pre.items # Cur.items
    /\ Len(Pre.pool) < Len(Pre.items)
    /\ Len(Cur.pool) < Len(Cur.items)

(* C3 as stated: over the whole call, version grows by exactly one in a call
   that mutates and is unchanged by getSpinState and by a spinOnce on an
   empty pool. *)
C3_Original ==
    (last.op \notin {"none", "catalogEdit"} /\ IsSome(last.pre)) =>
        /\ (last.op = "getSpinState" => Cur.version = Pre.version)
        /\ (last.op = "spinOnce" /\ last.outcome = "noop" => Cur.version = Pre.version)
        /\ (last.outcome = "ok" => Cur.version = Pre.version + 1)

(* C3 amended: counted from the state the call's reconciliation returns,
   version grows by exactly one in a call that mutates and is unchanged by
   getSpinState, by a spinOnce on an empty pool and by a rejected call;
   reconciliation itself keeps the version when the stored state is present
   and agrees with the catalog, and otherwise sets it to 1 (nothing stored)
   or adds one (rebuild).  resetSpinStateFromItems adds one to the stored
   version, or writes 1 when nothing is stored. *)
C3_VersionStep ==
    /\ UsesEnsureState(last.op) =>
          /\ last.ensWrote <=> ~ConsistentWithCatalog(last.pre)
          /\ Ens.version = IF ~IsSome(last.pre) THEN 1
                           ELSE IF last.ensWrote THEN Pre.version + 1
                           ELSE Pre.version
          /\ Cur.version = IF last.outcome = "ok" THEN Ens.version + 1 ELSE Ens.version
          /\ (last.op = "getSpinState" => last.outcome = "read")
          /\ (last.op = "spinOnce" /\ Ens.pool = <<>> => last.outcome # "ok")
          /\ (AlwaysMutates(last.op) => last.outcome = "ok")
    /\ last.op = "resetSpinStateFromItems" =>
          Cur.version = IF IsSome(last.pre) THEN Pre.version + 1 ELSE 1

\* a flag flip in the call that also reconciled a changed catalog: two steps
C3_Witness ==
    /\ last.op = "setPublicOffline" /\ last.ensWrote
    /\ IsSome(last.pre) /\ Cur.version = Pre.version + 2

(* C5 as stated: a spinOnce whose trimmed auction number is in history
   (ignoring case) fails and leaves the persisted state as it was when testing
   mode is off; with testing mode on the same call (user name not blank, pool
   not empty) succeeds with a draw. *)
C5_Original ==
    ( /\ last.op = "spinOnce" /\ IsSome(last.pre)
      /\ HistoryHasAuction(Pre.history, Trimmed(last.arg.auctionNumber)) ) =>
        /\ ~Pre.isTestingMode => (IsError(last.outcome) /\ store = last.pre)
        /\ (Pre.isTestingMode /\ ~Blank(last.arg.username) /\ Pre.pool # <<>>) =>
              last.outcome = "ok"

(* C5 amended: with testing mode off, a spinOnce whose trimmed auction number
   is in history (ignoring case) fails, and it writes nothing itself: the
   persisted state afterwards is the state its reconciliation returned, which
   is the prior state unless reconciliation rebuilt it for a changed catalog.
   With testing mode on, the same call with a non-blank user name is not
   rejected and draws whenever the pool it sees is not empty. *)
C5_AuctionUniqueness ==
    ( /\ last.op = "spinOnce" /\ IsSome(last.pre)
      /\ HistoryHasAuction(Pre.history, Trimmed(last.arg.auctionNumber)) ) =>
        /\ ~Pre.isTestingMode =>
              /\ IsError(last.outcome) /\ ~last.wrote /\ last.ret = None
              /\ (~Blank(last.arg.username) => last.outcome = "duplicate")
              /\ store = last.ensured
              /\ (ConsistentWithCatalog(last.pre) => store = last.pre)
        /\ (Pre.isTestingMode /\ ~Blank(last.arg.username)) =>
              /\ ~IsError(last.outcome)
              /\ (Ens.pool # <<>> =>
                    /\ last.outcome = "ok"
                    /\ Len(Cur.pool) = Len(Ens.pool) - 1
                    /\ Cur.history[1].auctionNumber = Trimmed(last.arg.auctionNumber)
                    /\ Len(Cur.history) = Len(Pre.history) + 1)
              /\ (Ens.pool = <<>> => last.outcome = "noop")

\* the rejected number differs from the recorded one in case and in white space
C5_Witness ==
    /\ last.op = "spinOnce" /\ last.outcome = "duplicate"
    /\ IsSome(last.pre) /\ ~Pre.isTestingMode /\ store = last.pre
    /\ last.arg.auctionNumber # Trimmed(last.arg.auctionNumber)
    /\ \A i \in 1..Len(Pre.history) :
          Pre.history[i].auctionNumber # Trimmed(last.arg.auctionNumber)

(* C6: a spinOnce with non-blank auction number and user name, no duplicate
   (or testing mode on) and a non-empty pool draws: it removes exactly one
   entry from the pool it acts on (new pool plus selectedItem is the old pool
   as a multiset), adds one to version, sets lastSpin to the record of the
   trimmed inputs, the drawn item and the new version, and puts that record
   at the head of history, cut to 200; every other field is kept.  From a
   fresh 3-item state: pool length 2, version 2, history length 1. *)
C6_DrawPostcondition ==
    last.op = "spinOnce" =>
        LET accepted == /\ ~Blank(last.arg.auctionNumber) /\ ~Blank(last.arg.username)
                        /\ (Ens.isTestingMode \/
                              ~HistoryHasAuction(Ens.history, Trimmed(last.arg.auctionNumber)))
                        /\ Ens.pool # <<>>
            record == [ auctionNumber |-> Trimmed(last.arg.auctionNumber),
                        username |-> Trimmed(last.arg.username),
                        item |-> Get(Cur.selectedItem),
                        version |-> Ens.version + 1 ]
        IN /\ accepted <=> last.outcome = "ok"
           /\ (~last.ensWrote /\ IsSome(last.pre)) => last.ensured = last.pre
           /\ accepted =>
                 /\ IsSome(Cur.selectedItem)
                 /\ Len(Cur.pool) = Len(Ens.pool) - 1
                 /\ SameMultiset(Cur.pool \o Cur.selectedItem, Ens.pool)
                 /\ Cur.version = Ens.version + 1
                 /\ Cur.lastSpin = Some(record)
                 /\ Cur.history = Take(<<record>> \o Ens.history, MAX_HISTORY)
                 /\ Cur = [Ens EXCEPT !.pool = Cur.pool, !.selectedItem = Cur.selectedItem,
                                      !.version = Cur.version, !.lastSpin = Cur.lastSpin,
                                      !.history = Cur.history]
                 /\ last.ret = store
                 /\ (Len(Ens.items) = 3 /\ Ens.pool = Ens.items /\ Ens.version = 1
                       /\ Ens.history = <<>>) =>
                       (Len(Cur.pool) = 2 /\ Cur.version = 2 /\ Len(Cur.history) = 1)

\* the first draw from the fresh state of Pack, Pack, Box takes one of the Packs
C6_Witness ==
    /\ last.op = "spinOnce" /\ last.outcome = "ok"
    /\ IsSome(last.pre) /\ last.pre = last.ensured
    /\ Pre.version = 1 /\ Pre.pool = <<"Pack", "Pack", "Box">>
    /\ Cur.selectedItem = Some("Pack") /\ Cur.pool = <<"Pack", "Box">>
    /\ Cur.version = 2 /\ Len(Cur.history) = 1
    /\ last.arg.username # Trimmed(last.arg.username)

(* C7: a spinOnce that finds the pool empty writes nothing (its
   reconciliation wrote nothing either, the persisted state is the one before
   the call) and, the inputs being accepted, returns that state: pool,
   selectedItem, version, history and lastSpin unchanged. *)
C7_EmptyPoolNoOp ==
    (last.op = "spinOnce" /\ Ens.pool = <<>>) =>
        /\ IsSome(last.pre) /\ Pre.pool = <<>>
        /\ ~last.ensWrote /\ ~last.wrote
        /\ store = last.pre
        /\ last.outcome # "ok"
        /\ ( /\ ~Blank(last.arg.auctionNumber) /\ ~Blank(last.arg.username)
             /\ (Pre.isTestingMode \/
                   ~HistoryHasAuction(Pre.history, Trimmed(last.arg.auctionNumber))) ) =>
              (last.outcome = "noop" /\ last.ret = last.pre)

\* the pool was drawn empty and a further accepted spinOnce returned the state
C7_Witness ==
    /\ last.op = "spinOnce" /\ last.outcome = "noop"
    /\ IsSome(last.pre) /\ Pre.pool = <<>> /\ Len(Pre.history) >= 1
    /\ store = last.pre /\ last.ret = last.pre

(* C8 as stated: a call that fails with a validation error or a constraint
   violation has made no store write, and the persisted state is the state
   before the call. *)
C8_Original ==
    IsError(last.outcome) => (~last.ensWrote /\ ~last.wrote /\ store = last.pre)

(* C8 amended: a call that fails with a validation error (blank auction
   number or user name, blank giveaway name) or a constraint violation
   (duplicate auction number, giveaway without prize, giveaway without
   history) has written nothing after its reconciliation: the persisted state
   is the state reconciliation returned, which is the state before the call
   whenever that was present and agreed with the catalog; reconciliation
   writes (creates or rebuilds the state) exactly when it was not. *)
C8_RejectionWritesNothing ==
    IsError(last.outcome) =>
        /\ UsesEnsureState(last.op)
        /\ ~last.wrote /\ last.ret = None
        /\ store = last.ensured
        /\ last.ensWrote <=> ~ConsistentWithCatalog(last.pre)
        /\ (ConsistentWithCatalog(last.pre) => store = last.pre)
        /\ (last.outcome = "required" =>
              last.op = "spinOnce" /\ (Blank(last.arg.auctionNumber) \/ Blank(last.arg.username)))
        /\ (last.outcome = "duplicate" =>
              /\ last.op = "spinOnce" /\ ~Ens.isTestingMode
              /\ HistoryHasAuction(Ens.history, Trimmed(last.arg.auctionNumber)))
        /\ (last.outcome = "giveaway_item_required" =>
              last.op = "setCurrentBuyersGiveawayItem" /\ Blank(last.arg))
        /\ (last.outcome = "giveaway_item_missing" =>
              /\ last.op = "runBuyersGiveaway"
              /\ (last.arg = None \/ Blank(Get(last.arg)))
              /\ Ens.currentBuyersGiveawayItem = None)
        /\ (last.outcome = "giveaway_no_entries" =>
              last.op = "runBuyersGiveaway" /\ Ens.history = <<>>)

\* a blank giveaway name is refused on a state that has a history and a pending prize
C8_Witness ==
    /\ last.op = "setCurrentBuyersGiveawayItem" /\ last.outcome = "giveaway_item_required"
    /\ IsSome(last.pre) /\ store = last.pre /\ ~last.ensWrote
    /\ Len(Pre.history) >= 1 /\ IsSome(Pre.currentBuyersGiveawayItem)

(* C9: when the stored configHash differs from the hash of the catalog, the
   next engine call rebuilds the state: items and pool are the catalog list,
   selectedItem is null, version is the previous version plus one, and
   history, lastSpin, isOffline, isTestingMode, buyersGiveaway and
   currentBuyersGiveawayItem are those of the prior state. *)
C9_ReconcilePreservesBookkeeping ==
    ( /\ UsesEnsureState(last.op) /\ IsSome(last.pre)
      /\ Pre.configHash # hashItems(readConfigItems) ) =>
        /\ last.ensWrote
        /\ Ens.items = readConfigItems
        /\ Ens.pool = readConfigItems
        /\ Ens.selectedItem = None
        /\ Ens.version = Pre.version + 1
        /\ Ens.history = Pre.history
        /\ Ens.lastSpin = Pre.lastSpin
        /\ Ens.isOffline = Pre.isOffline
        /\ Ens.isTestingMode = Pre.isTestingMode
        /\ Ens.buyersGiveaway = Pre.buyersGiveaway
        /\ Ens.currentBuyersGiveawayItem = Pre.currentBuyersGiveawayItem
        /\ (last.op = "getSpinState" => (store = last.ensured /\ last.ret = last.ensured))

\* a read after a catalog change, on a state that is offline and has a history
C9_Witness ==
    /\ last.op = "getSpinState" /\ last.ensWrote /\ IsSome(last.pre)
    /\ Pre.isOffline /\ Len(Pre.history) >= 1 /\ IsSome(Pre.selectedItem)
    /\ Pre.items # Cur.items /\ Cur.pool = readConfigItems
    /\ Cur.isOffline /\ Cur.history = Pre.history

(* C10: when a stored state exists, its configHash is the hash of the catalog
   and its pool is a sub-multiset of the catalog items, ensureState writes
   nothing and returns the stored state; getSpinState then returns it and
   leaves the store as it was, so repeated reads return the same version and
   pool. *)
C10_ConsistentStateNoOp ==
    (UsesEnsureState(last.op) /\ ConsistentWithCatalog(last.pre)) =>
        /\ ~last.ensWrote
        /\ last.ensured = last.pre
        /\ (last.op = "getSpinState" =>
              (~last.wrote /\ store = last.pre /\ last.ret = last.pre))

\* a read of a partly drawn pool left it as it was
C10_Witness ==
    /\ last.op = "getSpinState" /\ IsSome(last.pre) /\ store = last.pre
    /\ last.ret = last.pre
    /\ Len(Pre.pool) < Len(Pre.items) /\ Len(Pre.pool) >= 1

(* C11: when the stored configHash is the hash of the catalog but some value
   occurs more often in the stored pool than in the catalog, the next engine
   call rebuilds the state: pool and items are the full catalog list and
   version is the stored version plus one.  The state every operation acts
   on therefore has a pool that is a sub-multiset of the current catalog. *)
C11_IntegritySelfRepair ==
    UsesEnsureState(last.op) =>
        /\ SubMultiset(Ens.pool, readConfigItems)
        /\ ( /\ IsSome(last.pre)
             /\ Pre.configHash = hashItems(readConfigItems)
             /\ ~SubMultiset(Pre.pool, readConfigItems) ) =>
              /\ last.ensWrote
              /\ Ens.pool = readConfigItems
              /\ Ens.items = readConfigItems
              /\ Ens.version = Pre.version + 1
              /\ (~last.wrote => store = last.ensured)

\* a draw on a stored pool of three Packs against the catalog Pack, Pack, Box
C11_Witness ==
    /\ last.op = "spinOnce" /\ last.outcome = "ok" /\ IsSome(last.pre)
    /\ Pre.configHash = hashItems(readConfigItems)
    /\ Count(Pre.pool, "Pack") = 3 /\ Count(readConfigItems, "Pack") = 2
    /\ Cur.version = Pre.version + 2
    /\ SubMultiset(Cur.pool, readConfigItems) /\ Len(Cur.pool) = 2

(* C12: when nothing is stored, the first engine call creates and persists a
   state with items equal to the catalog list, pool equal to items, version
   1, selectedItem null, isOffline and isTestingMode false, an empty history
   and null lastSpin, buyersGiveaway and currentBuyersGiveawayItem; the
   operation of the call then acts on that state. *)
C12_FirstReadCreation ==
    (last.op \notin {"none", "catalogEdit"} /\ last.pre = None) =>
        LET fresh == [ items |-> readConfigItems,
                       pool |-> readConfigItems,
                       selectedItem |-> None,
                       version |-> 1,
                       configHash |-> hashItems(readConfigItems),
                       isOffline |-> FALSE,
                       isTestingMode |-> FALSE,
                       lastSpin |-> None,
                       history |-> <<>>,
                       buyersGiveaway |-> None,
                       currentBuyersGiveawayItem |-> None ]
        IN /\ IsSome(store)
           /\ Cur.items = readConfigItems
           /\ UsesEnsureState(last.op) =>
                 /\ last.ensWrote
                 /\ last.ensured = Some(fresh)
                 /\ (~last.wrote => store = Some(fresh))
                 /\ (last.wrote => Cur.version = 2)
           /\ last.op = "resetSpinStateFromItems" => store = Some(fresh)

\* the first call is a read: the store holds the fresh state of Pack, Pack, Box
C12_Witness ==
    /\ last.op = "getSpinState" /\ last.pre = None /\ IsSome(store)
    /\ last.ret = store
    /\ Cur.version = 1 /\ Cur.pool = <<"Pack", "Pack", "Box">> /\ Cur.items = Cur.pool
    /\ Cur.history = <<>> /\ ~Cur.isOffline /\ ~Cur.isTestingMode

(* C13: history is a bounded newest-first buffer.  In every persisted state
   it has at most 200 records, in the order of their draws with the newest
   first, and its first record is lastSpin, the most recent successful draw.
   A successful draw puts its record at index 0 in front of the records it
   found; when it found 200 records, the oldest one is dropped. *)
C13_HistoryBoundedNewestFirst ==
    IsSome(store) =>
        /\ Len(Cur.history) <= 200
        /\ \A i \in 1..(Len(Cur.history) - 1) :
              Cur.history[i].version > Cur.history[i + 1].version
        /\ (Cur.history # <<>> => Cur.lastSpin = Some(Cur.history[1]))
        /\ (last.op = "spinOnce" /\ last.outcome = "ok") =>
              /\ Cur.history[1] = [ auctionNumber |-> Trimmed(last.arg.auctionNumber),
                                    username |-> Trimmed(last.arg.username),
                                    item |-> Get(Cur.selectedItem),
                                    version |-> Cur.version ]
              /\ (Len(Ens.history) < 200 =>
                    /\ Len(Cur.history) = Len(Ens.history) + 1
                    /\ \A i \in 1..Len(Ens.history) : Cur.history[i + 1] = Ens.history[i])
              /\ (Len(Ens.history) = 200 =>
                    /\ Len(Cur.history) = 200
                    /\ \A i \in 1..199 : Cur.history[i + 1] = Ens.history[i])

\* a draw on a history of 200 records: the record of auction b, the oldest, is gone
C13_Witness ==
    /\ last.op = "spinOnce" /\ last.outcome = "ok"
    /\ Len(Ens.history) = 200 /\ Ens.history[200].auctionNumber = <<"b">>
    /\ Len(Cur.history) = 200
    /\ Cur.history[200] = Ens.history[199]
    /\ Cur.history[1].auctionNumber = <<"a">>
    /\ \A i \in 1..200 : Cur.history[i].auctionNumber # <<"b">>

(* C14: resetSpinState always writes: pool becomes the full items list,
   selectedItem null, version one more; items, history, lastSpin, isOffline,
   isTestingMode, buyersGiveaway and currentBuyersGiveawayItem are those of
   the state it acted on (the stored state, when that agrees with the
   catalog). *)
C14_ResetSpinStateFrame ==
    last.op = "resetSpinState" =>
        /\ last.outcome = "ok" /\ last.wrote /\ last.ret = store
        /\ (ConsistentWithCatalog(last.pre) => last.ensured = last.pre)
        /\ Cur.pool = Ens.items
        /\ Cur.selectedItem = None
        /\ Cur.version = Ens.version + 1
        /\ Cur.items = Ens.items
        /\ Cur.configHash = Ens.configHash
        /\ Cur.history = Ens.history
        /\ Cur.lastSpin = Ens.lastSpin
        /\ Cur.isOffline = Ens.isOffline
        /\ Cur.isTestingMode = Ens.isTestingMode
        /\ Cur.buyersGiveaway = Ens.buyersGiveaway
        /\ Cur.currentBuyersGiveawayItem = Ens.currentBuyersGiveawayItem

\* a reset of an offline state with one draw made: the pool is full again, the record stays
C14_Witness ==
    /\ last.op = "resetSpinState" /\ IsSome(last.pre) /\ last.ensured = last.pre
    /\ Pre.isOffline /\ IsSome(Pre.selectedItem)
    /\ Len(Pre.history) = 1 /\ Len(Pre.pool) = Len(Pre.items) - 1
    /\ Cur.pool = Cur.items /\ Cur.history = Pre.history /\ Cur.lastSpin = Pre.lastSpin
    /\ Cur.isOffline /\ Cur.selectedItem = None /\ Cur.version = Pre.version + 1

(* C15: resetPoolAndClearHistory always writes: pool becomes the full items
   list; selectedItem, lastSpin, buyersGiveaway and currentBuyersGiveawayItem
   become null and history empty; version is one more; items, isOffline and
   isTestingMode are those of the state it acted on. *)
C15_ResetPoolAndClearHistoryFrame ==
    last.op = "resetPoolAndClearHistory" =>
        /\ last.outcome = "ok" /\ last.wrote /\ last.ret = store
        /\ (ConsistentWithCatalog(last.pre) => last.ensured = last.pre)
        /\ Cur.pool = Ens.items
        /\ Cur.selectedItem = None
        /\ Cur.history = <<>>
        /\ Cur.lastSpin = None
        /\ Cur.buyersGiveaway = None
        /\ Cur.currentBuyersGiveawayItem = None
        /\ Cur.version = Ens.version + 1
        /\ Cur.items = Ens.items
        /\ Cur.configHash = Ens.configHash
        /\ Cur.isOffline = Ens.isOffline
        /\ Cur.isTestingMode = Ens.isTestingMode

\* a full reset after a draw and a giveaway
C15_Witness ==
    /\ last.op = "resetPoolAndClearHistory" /\ IsSome(last.pre) /\ last.ensured = last.pre
    /\ Len(Pre.history) = 1 /\ IsSome(Pre.buyersGiveaway) /\ IsSome(Pre.lastSpin)
    /\ Len(Pre.pool) = Len(Pre.items) - 1
    /\ Cur.pool = Cur.items /\ Cur.history = <<>> /\ Cur.buyersGiveaway = None
    /\ Cur.version = Pre.version + 1

(* C16: clearSpinHistory always writes: history becomes empty; selectedItem,
   lastSpin, buyersGiveaway and currentBuyersGiveawayItem become null;
   version is one more; pool and items are exactly those of the state it
   acted on, and so are isOffline and isTestingMode. *)
C16_ClearSpinHistoryFrame ==
    last.op = "clearSpinHistory" =>
        /\ last.outcome = "ok" /\ last.wrote /\ last.ret = store
        /\ (ConsistentWithCatalog(last.pre) => last.ensured = last.pre)
        /\ Cur.history = <<>>
        /\ Cur.selectedItem = None
        /\ Cur.lastSpin = None
        /\ Cur.buyersGiveaway = None
        /\ Cur.currentBuyersGiveawayItem = None
        /\ Cur.version = Ens.version + 1
        /\ Cur.pool = Ens.pool
        /\ Cur.items = Ens.items
        /\ Cur.configHash = Ens.configHash
        /\ Cur.isOffline = Ens.isOffline
        /\ Cur.isTestingMode = Ens.isTestingMode

\* the history is wiped in the middle of a round: the drawn entry stays out of the pool
C16_Witness ==
    /\ last.op = "clearSpinHistory" /\ IsSome(last.pre) /\ last.ensured = last.pre
    /\ Len(Pre.history) = 1 /\ IsSome(Pre.buyersGiveaway)
    /\ Len(Pre.pool) = Len(Pre.items) - 1 /\ Len(Pre.pool) >= 1
    /\ Cur.pool = Pre.pool /\ Cur.items = Pre.items
    /\ Cur.history = <<>> /\ Cur.buyersGiveaway = None /\ Cur.selectedItem = None

(* C17: resetSpinStateFromItems(newItems) does not reconcile: it writes a
   state whose items and pool are newItems, selectedItem null, and version
   the stored version plus one (1 when nothing is stored), with isOffline,
   isTestingMode, history, lastSpin, buyersGiveaway and
   currentBuyersGiveawayItem of the stored state (their initial values when
   nothing is stored).  The items-config route calls it with the list it has
   just saved, so a catalog save keeps the spin history. *)
C17_ResetFromItemsFrame ==
    last.op = "resetSpinStateFromItems" =>
        /\ last.outcome = "ok" /\ last.wrote /\ last.ret = store
        /\ last.ensured = None /\ ~last.ensWrote
        /\ last.arg = readConfigItems
        /\ Cur.items = last.arg
        /\ Cur.pool = last.arg
        /\ Cur.selectedItem = None
        /\ IsSome(last.pre) =>
              /\ Cur.version = Pre.version + 1
              /\ Cur.isOffline = Pre.isOffline
              /\ Cur.isTestingMode = Pre.isTestingMode
              /\ Cur.history = Pre.history
              /\ Cur.lastSpin = Pre.lastSpin
              /\ Cur.buyersGiveaway = Pre.buyersGiveaway
              /\ Cur.currentBuyersGiveawayItem = Pre.currentBuyersGiveawayItem
        /\ ~IsSome(last.pre) =>
              /\ Cur.version = 1
              /\ ~Cur.isOffline /\ ~Cur.isTestingMode
              /\ Cur.history = <<>> /\ Cur.lastSpin = None
              /\ Cur.buyersGiveaway = None /\ Cur.currentBuyersGiveawayItem = None

\* a catalog save with another list after a draw: one version step, the
\* pool is the new list, the record of the draw is kept
C17_Witness ==
    /\ last.op = "resetSpinStateFromItems" /\ IsSome(last.pre)
    /\ Pre.items # last.arg
    /\ Len(Pre.history) = 1 /\ IsSome(Pre.selectedItem)
    /\ Cur.history = Pre.history /\ Cur.lastSpin = Pre.lastSpin
    /\ Cur.pool = last.arg /\ Cur.version = Pre.version + 1

(* C18: setPublicOffline(b) sets isOffline to b and setTestingMode(b) sets
   isTestingMode to b.  Each always writes and adds one to version, also
   when the flag already had the value b, and every other field (items,
   pool, selectedItem, history, lastSpin, the other flag, buyersGiveaway,
   currentBuyersGiveawayItem) is that of the state it acted on. *)
C18_ModeToggleFrame ==
    last.op \in {"setPublicOffline", "setTestingMode"} =>
        /\ last.outcome = "ok" /\ last.wrote /\ last.ret = store
        /\ (ConsistentWithCatalog(last.pre) => last.ensured = last.pre)
        /\ Cur.version = Ens.version + 1
        /\ (last.op = "setPublicOffline" =>
              (Cur.isOffline = last.arg /\ Cur.isTestingMode = Ens.isTestingMode))
        /\ (last.op = "setTestingMode" =>
              (Cur.isTestingMode = last.arg /\ Cur.isOffline = Ens.isOffline))
        /\ Cur.items = Ens.items
        /\ Cur.configHash = Ens.configHash
        /\ Cur.pool = Ens.pool
        /\ Cur.selectedItem = Ens.selectedItem
        /\ Cur.history = Ens.history
        /\ Cur.lastSpin = Ens.lastSpin
        /\ Cur.buyersGiveaway = Ens.buyersGiveaway
        /\ Cur.currentBuyersGiveawayItem = Ens.currentBuyersGiveawayItem

\* testing mode is switched on when it is on already, after a draw
C18_Witness ==
    /\ last.op = "setTestingMode" /\ last.arg = TRUE
    /\ IsSome(last.pre) /\ last.ensured = last.pre
    /\ Pre.isTestingMode /\ Len(Pre.history) = 1 /\ Len(Pre.pool) < Len(Pre.items)
    /\ Cur.isTestingMode /\ Cur.version = Pre.version + 1
    /\ Cur.pool = Pre.pool /\ Cur.history = Pre.history

(* C19: setCurrentBuyersGiveawayItem(name) with a name that is not blank
   stores the trimmed name as currentBuyersGiveawayItem and adds one to
   version; buyersGiveaway (the previous result), pool and history, and the
   remaining fields, are those of the state it acted on. *)
C19_SetGiveawayItemFrame ==
    (last.op = "setCurrentBuyersGiveawayItem" /\ ~Blank(last.arg)) =>
        /\ last.outcome = "ok" /\ last.wrote /\ last.ret = store
        /\ (ConsistentWithCatalog(last.pre) => last.ensured = last.pre)
        /\ Cur.currentBuyersGiveawayItem = Some(Trimmed(last.arg))
        /\ Cur.version = Ens.version + 1
        /\ Cur.buyersGiveaway = Ens.buyersGiveaway
        /\ Cur.pool = Ens.pool
        /\ Cur.history = Ens.history
        /\ Cur = [Ens EXCEPT !.currentBuyersGiveawayItem = Cur.currentBuyersGiveawayItem,
                             !.version = Cur.version]

\* the next prize is named, with a leading blank, while the last result is on display
C19_Witness ==
    /\ last.op = "setCurrentBuyersGiveawayItem" /\ last.outcome = "ok"
    /\ last.arg # Trimmed(last.arg)
    /\ IsSome(last.pre) /\ last.ensured = last.pre
    /\ IsSome(Pre.buyersGiveaway) /\ Pre.currentBuyersGiveawayItem = None
    /\ Cur.currentBuyersGiveawayItem = Some(<<"g">>)
    /\ Cur.buyersGiveaway = Pre.buyersGiveaway /\ Cur.history = Pre.history

(* C20: runBuyersGiveaway succeeds exactly when a prize name is available
   (a non-blank override, or a pending currentBuyersGiveawayItem) and the
   history is not empty.  The winner is drawn from the user names of the
   history records, one entry per record: in the resulting buyersGiveaway,
   winnerUsername is the user name of some record, sourceEntryCount is the
   length of history, itemName is the trimmed override or else the pending
   item, and version is the new state version, the old one plus one.
   currentBuyersGiveawayItem becomes null; pool and history, and the
   remaining fields, are unchanged. *)
C20_GiveawayResult ==
    last.op = "runBuyersGiveaway" =>
        LET override == IsSome(last.arg) /\ ~Blank(Get(last.arg))
            named == override \/ IsSome(Ens.currentBuyersGiveawayItem)
        IN /\ last.outcome = "ok" <=> (named /\ Ens.history # <<>>)
           /\ last.outcome = "ok" =>
                 /\ last.wrote /\ last.ret = store
                 /\ IsSome(Cur.buyersGiveaway)
                 /\ \E i \in 1..Len(Ens.history) :
                       Get(Cur.buyersGiveaway).winnerUsername = Ens.history[i].username
                 /\ Get(Cur.buyersGiveaway).sourceEntryCount = Len(Ens.history)
                 /\ Get(Cur.buyersGiveaway).itemName =
                       IF override THEN Trimmed(Get(last.arg))
                       ELSE Get(Ens.currentBuyersGiveawayItem)
                 /\ Get(Cur.buyersGiveaway).version = Cur.version
                 /\ Cur.version = Ens.version + 1
                 /\ Cur.currentBuyersGiveawayItem = None
                 /\ Cur.pool = Ens.pool
                 /\ Cur.history = Ens.history
                 /\ Cur = [Ens EXCEPT !.buyersGiveaway = Cur.buyersGiveaway,
                                      !.currentBuyersGiveawayItem = None,
                                      !.version = Cur.version]

\* two records of the same user: the giveaway counts two entries
C20_Witness ==
    /\ last.op = "runBuyersGiveaway" /\ last.outcome = "ok"
    /\ Len(Ens.history) = 2 /\ Ens.history[1].username = Ens.history[2].username
    /\ Get(Cur.buyersGiveaway).sourceEntryCount = 2
    /\ Get(Cur.buyersGiveaway).winnerUsername = <<"u">>
    /\ Get(Cur.buyersGiveaway).itemName = <<"g">>
    /\ Cur.currentBuyersGiveawayItem = None /\ Cur.history = Ens.history

\* the call is a runBuyersGiveaway that carries no usable override
NoOverride(call) ==
    call.op = "runBuyersGiveaway" /\ (call.arg = None \/ Blank(Get(call.arg)))

(* C21: runBuyersGiveaway fails when there is neither a non-blank override
   nor a pending currentBuyersGiveawayItem, and fails when history is empty.
   A successful run leaves no pending prize, and only
   setCurrentBuyersGiveawayItem sets one: from a state without a pending
   prize, a run without override cannot succeed until
   setCurrentBuyersGiveawayItem has been called, so two such runs in a row
   never both succeed. *)
C21_GiveawayNeedsPrizeAndEntries ==
    /\ [](last.op = "runBuyersGiveaway" =>
             /\ (NoOverride(last) /\ Ens.currentBuyersGiveawayItem = None) =>
                   (last.outcome = "giveaway_item_missing" /\ last.ret = None /\ ~last.wrote)
             /\ Ens.history = <<>> => (IsError(last.outcome) /\ last.ret = None /\ ~last.wrote)
             /\ last.outcome = "ok" => Cur.currentBuyersGiveawayItem = None)
    /\ [][ ( /\ IsSome(store) /\ Cur.currentBuyersGiveawayItem = None
             /\ last'.op # "setCurrentBuyersGiveawayItem" ) =>
              /\ IsSome(store') /\ Get(store').currentBuyersGiveawayItem = None
              /\ ~(NoOverride(last') /\ last'.outcome = "ok") ]_vars

\* the prize set by staff was given away; the next run without override is refused
C21_Witness ==
    /\ last.op = "runBuyersGiveaway" /\ last.arg = None
    /\ last.outcome = "giveaway_item_missing"
    /\ IsSome(last.pre) /\ store = last.pre
    /\ Len(Pre.history) >= 1
    /\ IsSome(Pre.buyersGiveaway) /\ Pre.currentBuyersGiveawayItem = None

(* C27: in sequential execution the version of lastSpin and of every history
   record is at most the version of the state, the versions of the history
   records decrease strictly from the newest record on, and after a
   successful spinOnce the version of the returned state, of lastSpin and of
   the newest history record are the same. *)
C27_RecordVersions ==
    IsSome(store) =>
        /\ IsSome(Cur.lastSpin) => Get(Cur.lastSpin).version <= Cur.version
        /\ \A i \in 1..Len(Cur.history) : Cur.history[i].version <= Cur.version
        /\ \A i \in 1..Len(Cur.history) : \A j \in (i + 1)..Len(Cur.history) :
              Cur.history[i].version > Cur.history[j].version
        /\ (last.op = "spinOnce" /\ last.outcome = "ok") =>
              /\ IsSome(last.ret) /\ IsSome(Get(last.ret).lastSpin)
              /\ Get(last.ret).history # <<>>
              /\ Get(Get(last.ret).lastSpin).version = Get(last.ret).version
              /\ Get(last.ret).history[1].version = Get(last.ret).version
              /\ Get(last.ret).version = Ens.version + 1

\* a draw after a reset: the two records are two versions apart
C27_Witness ==
    /\ last.op = "spinOnce" /\ last.outcome = "ok"
    /\ Len(Cur.history) = 2
    /\ Cur.history[1].version = Cur.version
    /\ Cur.history[2].version < Cur.version - 1

(* C28: spinOnce checks the auction number and username before it looks at
   the pool: on an empty pool a blank auction number or username and, with
   testing mode off, an auction number of the history are answered with an
   error, not with the unchanged state; a call that does end as the no-op
   writes nothing, so its auction number is not recorded in history. *)
C28_ChecksBeforeEmptyPool ==
    (last.op = "spinOnce" /\ Ens.pool = <<>>) =>
        /\ (Blank(last.arg.auctionNumber) \/ Blank(last.arg.username)) =>
              (last.outcome = "required" /\ last.ret = None)
        /\ ( /\ ~Blank(last.arg.auctionNumber) /\ ~Blank(last.arg.username)
             /\ ~Ens.isTestingMode
             /\ HistoryHasAuction(Ens.history, Trimmed(last.arg.auctionNumber)) ) =>
              (last.outcome = "duplicate" /\ last.ret = None)
        /\ last.outcome = "noop" =>
              /\ ~last.wrote /\ Cur.history = Ens.history
              /\ ~Ens.isTestingMode =>
                    ~HistoryHasAuction(Cur.history, Trimmed(last.arg.auctionNumber))

\* the pool is empty and the auction number is one of the history: an error
C28_Witness ==
    /\ last.op = "spinOnce" /\ last.outcome = "duplicate"
    /\ IsSome(last.pre) /\ Pre.pool = <<>> /\ ~Pre.isTestingMode
    /\ store = last.pre

\* the history the call acted on still holds a record of the session before
\* the first state: neither clearSpinHistory nor resetPoolAndClearHistory
\* has run since the draw of auction b, the first draw of that session
NotClearedSinceFirstDraw ==
    \E i \in 1..Len(Ens.history) : Ens.history[i].version <= 2 * MAX_HISTORY + 1

(* C30: auction numbers are never reused within a round.  Late in a long
   session that began with the draw of auction b and in which the history
   was not cleared since, a spinOnce for auction b (in any case, with
   surrounding blanks) with testing mode off is not accepted, however many
   draws were made since. *)
C30_NoReuseWithinRound ==
    ( /\ last.op = "spinOnce" /\ ~Ens.isTestingMode
      /\ HistoryHasAuction(<<[auctionNumber |-> <<"b">>]>>, Trimmed(last.arg.auctionNumber))
      /\ NotClearedSinceFirstDraw ) =>
        last.outcome # "ok"

(* C31: in every persisted state a selectedItem that is not null is the item
   of lastSpin, and lastSpin is the newest history record; selectedItem is
   null after resetSpinState, resetSpinStateFromItems, clearSpinHistory and
   resetPoolAndClearHistory, and in the state a reconciliation rebuilt. *)
C31_SelectedItemConsistency ==
    /\ IsSome(store) =>
          (IsSome(Cur.selectedItem) =>
              /\ IsSome(Cur.lastSpin)
              /\ Get(Cur.lastSpin).item = Get(Cur.selectedItem)
              /\ Cur.history # <<>>
              /\ Cur.history[1] = Get(Cur.lastSpin))
    /\ last.op \in { "resetSpinState", "resetSpinStateFromItems", "clearSpinHistory",
                     "resetPoolAndClearHistory" } =>
          Cur.selectedItem = None
    /\ (UsesEnsureState(last.op) /\ last.ensWrote) => Ens.selectedItem = None

\* after a draw the history was cleared: nothing is selected, nothing was drawn last
C31_Witness ==
    /\ last.op = "clearSpinHistory" /\ IsSome(last.pre)
    /\ IsSome(Pre.selectedItem) /\ Pre.history # <<>>
    /\ Cur.selectedItem = None /\ Cur.lastSpin = None /\ Cur.history = <<>>

\* the operation neither draws nor restores the pool
LeavesPool(call) ==
    \/ call.op \in { "getSpinState", "setPublicOffline", "setTestingMode", "clearSpinHistory",
                     "setCurrentBuyersGiveawayItem", "runBuyersGiveaway" }
    \/ (call.op = "spinOnce" /\ call.outcome # "ok")

(* C32: entries are conserved.  In every persisted state each item occurs in
   items as often as in pool plus in the successful draws made since the
   pool was last restored (creation, resetSpinState,
   resetPoolAndClearHistory, resetSpinStateFromItems, rebuild by
   reconciliation); a call that neither draws nor restores, and whose
   reconciliation found the stored state in agreement with the catalog,
   leaves pool as it was. *)
C32_EntriesConserved ==
    IsSome(store) =>
        /\ \A x \in ItemNames : Count(Cur.items, x) = Count(Cur.pool, x) + draws[x]
        /\ Len(Cur.items) = Len(Cur.pool) + DrawCount(draws)
        /\ (LeavesPool(last) /\ IsSome(last.pre) /\ ~last.ensWrote) => Cur.pool = Pre.pool

\* two draws, a Pack and a Box, and then a toggle: the pool is two entries short
C32_Witness ==
    /\ last.op = "setPublicOffline" /\ IsSome(last.pre)
    /\ draws["Pack"] = 1 /\ draws["Box"] = 1
    /\ Cur.items = <<"Pack", "Pack", "Box">> /\ Cur.pool = <<"Pack">>
    /\ Pre.pool = Cur.pool

\* the last call is a spinOnce with auction number and user name given, the
\* number (or testing mode) such that no duplicate is found
ValidNewSpin ==
    /\ last.op = "spinOnce"
    /\ ~Blank(last.arg.auctionNumber) /\ ~Blank(last.arg.username)
    /\ (Ens.isTestingMode \/ ~HistoryHasAuction(Ens.history, Trimmed(last.arg.auctionNumber)))

(* C33: pool exhaustion.  With the catalog unchanged and no reset, every
   spinOnce with a valid auction number not used before draws one entry as
   long as the pool has one, so that the pool restored to n entries is empty
   after exactly n successful draws and not before; every further spinOnce
   returns the state and changes neither pool nor version. *)
C33_PoolExhaustion ==
    /\ IsSome(store) =>
          /\ DrawCount(draws) <= Len(Cur.items)
          /\ (Cur.pool = <<>>) <=> (DrawCount(draws) = Len(Cur.items))
    /\ (ValidNewSpin /\ Ens.pool # <<>>) =>
          /\ last.outcome = "ok"
          /\ Len(Cur.pool) = Len(Ens.pool) - 1
          /\ Cur.version = Ens.version + 1
    /\ (last.op = "spinOnce" /\ Ens.pool = <<>>) =>
          /\ last.outcome # "ok"
          /\ Cur.pool = <<>> /\ Cur.version = Ens.version
          /\ ValidNewSpin => (last.outcome = "noop" /\ store = last.ensured)

\* three entries, three draws under three auction numbers, and a fourth call
C33_Witness ==
    /\ last.op = "spinOnce" /\ last.outcome = "noop"
    /\ Len(Cur.items) = 3 /\ Cur.pool = <<>>
    /\ Len(Cur.history) = 3 /\ Cur.version = 4
    /\ DrawCount(draws) = 3
    /\ ~HistoryHasAuction(Cur.history, Trimmed(last.arg.auctionNumber))

----------------------------------------------------------------------------
(* Properties of bulk draws *)

\* the first auction number of the batch the last call asked for (0: not a number)
BulkStart == parsePositiveInt(Trimmed(last.arg.auctionNumberStart))

\* one of the numbers start .. start + count - 1 is in history
BulkCollides(history) ==
    \E i \in 0..(last.arg.count - 1) : HistoryHasAuction(history, FormatInt(BulkStart + i))

(* C22 as stated: with testing mode off, a bulk draw of count n starting at
   auction number s is rejected whenever one of s .. s+n-1 is in history,
   with no draw made and the persisted pool, history and version as they
   were before the call. *)
C22_Original ==
    ( /\ last.op = "spinBulk" /\ IsSome(last.pre) /\ BulkStart > 0
      /\ ~Pre.isTestingMode /\ BulkCollides(Pre.history) ) =>
        /\ BulkIsError(last.outcome) /\ last.results = <<>>
        /\ Cur.pool = Pre.pool /\ Cur.history = Pre.history /\ Cur.version = Pre.version

(* C22 amended: with testing mode off, a bulk draw of count n starting at
   auction number s is rejected as a whole whenever one of s .. s+n-1 is in
   history: no draw is made, no result is returned and the operation writes
   nothing, so pool, history and version are those of the state its
   reconciliation returned, which is the state before the call unless
   reconciliation rebuilt it for a changed catalog. *)
C22_BulkAllOrNothing ==
    ( /\ last.op = "spinBulk" /\ IsSome(last.pre) /\ BulkStart > 0
      /\ ~Pre.isTestingMode /\ BulkCollides(Pre.history) ) =>
        /\ BulkIsError(last.outcome) /\ last.results = <<>> /\ last.ret = None
        /\ ~last.wrote
        /\ store = last.ensured
        /\ Cur.history = Pre.history
        /\ (ConsistentWithCatalog(last.pre) => store = last.pre)
        /\ ( ~Blank(last.arg.username) /\ last.arg.count \in 1..10 ) =>
              last.outcome = "duplicate"

\* a batch of two starting at 1 runs into auction 2, drawn before: nothing is drawn
C22_Witness ==
    /\ last.op = "spinBulk" /\ last.outcome = "duplicate"
    /\ IsSome(last.pre) /\ store = last.pre
    /\ BulkStart = 1 /\ last.arg.count = 2
    /\ ~HistoryHasAuction(Pre.history, <<"1">>) /\ HistoryHasAuction(Pre.history, <<"2">>)
    /\ Len(Pre.pool) >= 2

\* the call is a bulk draw whose inputs pass validation and the collision check
BulkAccepted ==
    /\ ~Blank(last.arg.username) /\ BulkStart > 0 /\ last.arg.count \in 1..10
    /\ (Ens.isTestingMode \/ ~BulkCollides(Ens.history))

\* the effect of an accepted bulk draw on the state reconciliation returned
BulkClamped ==
    LET p == Len(Ens.pool)
        k == IF last.arg.count < p THEN last.arg.count ELSE p
    IN /\ ~BulkIsError(last.outcome)
       /\ Len(last.results) = k
       /\ \A i \in 1..k :
             /\ last.results[i].auctionNumber = FormatInt(BulkStart + i - 1)
             /\ last.results[i].version = Ens.version + i
             /\ last.results[i].username = Trimmed(last.arg.username)
       /\ Len(Cur.pool) = p - k
       /\ SameMultiset(Cur.pool \o [i \in 1..k |-> last.results[i].item], Ens.pool)
       /\ Cur.version = Ens.version + k
       /\ last.ret = store
       /\ (k = 0 => (~last.wrote /\ store = last.ensured))
       /\ (k > 0 =>
             /\ last.wrote
             /\ Cur.selectedItem = Some(last.results[k].item)
             /\ Cur.lastSpin = Some(last.results[k])
             /\ Len(Cur.history) = Len(Ens.history) + k
             /\ \A i \in 1..k : Cur.history[i] = last.results[k + 1 - i])

(* C23 as stated: a bulk draw with count in 1..10 on a pool of size p makes
   exactly min(count, p) draws, returns that many results with sequential
   auction numbers and consecutive versions, takes that many entries from
   the pool, and raises no error when count exceeds p; a count outside 1..10
   is rejected and nothing is mutated. *)
C23_Original ==
    last.op = "spinBulk" =>
        /\ BulkAccepted => BulkClamped
        /\ last.arg.count \notin 1..10 =>
              /\ BulkIsError(last.outcome) /\ last.results = <<>>
              /\ ~last.ensWrote /\ ~last.wrote /\ store = last.pre

(* C23 amended: as stated, for inputs that pass validation and the collision
   check and counted from the state reconciliation returned; a count outside
   1..10 is rejected without the operation writing anything: the persisted
   state is the state reconciliation returned, the state before the call
   whenever that was present and agreed with the catalog. *)
C23_BulkClampsToPool ==
    last.op = "spinBulk" =>
        /\ BulkAccepted => BulkClamped
        /\ last.arg.count \notin 1..10 =>
              /\ BulkIsError(last.outcome) /\ last.results = <<>> /\ last.ret = None
              /\ ~last.wrote /\ store = last.ensured
              /\ (ConsistentWithCatalog(last.pre) => store = last.pre)

\* ten draws asked from the two entries left after a single draw: two are made
C23_Witness ==
    /\ last.op = "spinBulk" /\ last.outcome = "ok" /\ last.arg.count = 10
    /\ IsSome(last.pre) /\ last.ensured = last.pre
    /\ Len(Pre.pool) = 2 /\ Len(Pre.history) = 1
    /\ Len(last.results) = 2 /\ Cur.pool = <<>>
    /\ last.results[1].auctionNumber = <<"3">> /\ last.results[2].auctionNumber = <<"4">>
    /\ Cur.version = Pre.version + 2

\* the call of this step is a bulk draw that made at least one draw
DrewBatch(call) == call.op = "spinBulk" /\ call.outcome = "ok"

(* C24 as stated: recentBulkResults always holds exactly the records of the
   most recent bulk batch: a bulk draw sets it to its batch and no other
   step changes it (a bulk draw that finds the pool empty may leave it or
   empty it). *)
C24_Original ==
    [][ IsSome(store') =>
           /\ DrewBatch(last') => Get(store').recentBulkResults = last'.results
           /\ (last'.op # "spinBulk" /\ IsSome(store)) =>
                 Get(store').recentBulkResults = Cur.recentBulkResults ]_vars

(* C24 amended: recentBulkResults holds the records of the most recent bulk
   batch that drew, unless the history was cleared since: a bulk draw that
   draws replaces it with its batch; clearSpinHistory and
   resetPoolAndClearHistory empty it; a single spinOnce, a reconciliation, a
   bulk draw that is rejected or finds the pool empty, and every other
   operation leave it unchanged; a created state has none. *)
C24_RecentBulkResults ==
    [][ IsSome(store') =>
           LET now == Get(store').recentBulkResults
           IN /\ DrewBatch(last') => (now = last'.results /\ now # <<>>)
              /\ last'.op \in {"clearSpinHistory", "resetPoolAndClearHistory"} => now = <<>>
              /\ ( /\ ~DrewBatch(last')
                   /\ last'.op \notin {"clearSpinHistory", "resetPoolAndClearHistory"} ) =>
                    now = IF IsSome(store) THEN Cur.recentBulkResults ELSE <<>> ]_vars

\* a second batch, of one record, has replaced a first batch of two
C24_Witness ==
    /\ DrewBatch(last) /\ IsSome(last.pre)
    /\ Len(Pre.recentBulkResults) = 2 /\ Len(last.results) = 1
    /\ Cur.recentBulkResults = last.results
    /\ Len(Cur.history) = 3

----------------------------------------------------------------------------
(* Properties of the spin-action route *)

\* a request of a signed-in admin
SignedIn(req) == req.token = Some(<<"t", "k">>)

\* the request carries the configured owner password, and one is configured
OwnerPasswordValid(req) == req.ownerEnv # <<>> /\ req.body.ownerPassword = req.ownerEnv

\* a setTestingMode request that may change the flag
OwnerToggle(call) ==
    /\ SignedIn(call.req) /\ call.req.body.action = "setTestingMode"
    /\ OwnerPasswordValid(call.req) /\ call.req.body.isTestingMode # None

(* C35: testing mode is owner-gated.  Through the spin-action route the
   persisted isTestingMode changes (or a state is created with the flag on)
   only in a setTestingMode request with the valid owner password and a
   boolean value, and then to that value; a setTestingMode request of a
   signed-in admin with an invalid owner password is answered 403 and calls
   nothing: the persisted state, version included, is as before.  (A request
   without admin session never reaches the action: it is answered 401.) *)
C35_TestingModeOwnerGated ==
    /\ [][ ( \/ (IsSome(store) /\ IsSome(store')
                   /\ Get(store').isTestingMode # Get(store).isTestingMode)
             \/ (~IsSome(store) /\ IsSome(store') /\ Get(store').isTestingMode) ) =>
              /\ OwnerToggle(last')
              /\ last'.op = "setTestingMode" /\ last'.status = 200
              /\ Get(store').isTestingMode = Get(last'.req.body.isTestingMode) ]_vars
    /\ [][ ( /\ SignedIn(last'.req) /\ last'.req.body.action = "setTestingMode"
             /\ ~OwnerPasswordValid(last'.req) ) =>
              (last'.status = 403 /\ last'.op = "none" /\ store' = store) ]_vars
    /\ [][ ~SignedIn(last'.req) => (last'.status = 401 /\ store' = store) ]_vars

\* a signed-in admin sent the wrong owner password to switch testing mode on
C35_Witness ==
    /\ last.outcome = "none" /\ last.op = "none" /\ IsSome(last.pre)
    /\ last.status = 403 /\ SignedIn(last.req)
    /\ last.req.body.isTestingMode = Some(TRUE) /\ last.req.ownerEnv = <<"p", "w">>
    /\ last.req.body.ownerPassword = <<"p", "x">>
    /\ store = last.pre /\ ~Cur.isTestingMode /\ Cur.version = 2

----------------------------------------------------------------------------
(* Properties of interleaved executions *)

(* C2: under any interleaving of concurrent calls, every spinOnce that
   returned a drawn item removed its own entry from the persisted pool: the
   number of draws returned since the pool was last restored is
   |items| - |pool|. *)
C2_ExactlyOnceConsumption ==
    IsSome(store) => DrawCount(draws) = Len(Cur.items) - Len(Cur.pool)

(* C4: no store write lowers the persisted version, whatever the
   interleaving of the reads and writes of concurrent calls. *)
C4_VersionNeverDecremented ==
    [][(IsSome(store) /\ IsSome(store')) => Get(store').version >= Get(store).version]_vars

\* request p has completed a spinOnce that returned a drawn item
SpinReturned(ps, p) ==
    ps[p].pc = "done" /\ ps[p].op = "spinOnce" /\ ps[p].outcome = "ok"

\* the record a completed spinOnce returned
ReturnedRecord(ps, p) == Get(Get(ps[p].st).lastSpin)

\* the record is one of the history
InHistory(record, history) == \E i \in 1..Len(history) : history[i] = record

(* C26: the lost update is reachable.  When a spinOnce completes with the
   version another spinOnce, still answering, has returned (both read the
   state of version v and return success with v + 1, with different
   records), its write replaces the persisted state by its own result: the persisted pool is one entry short
   of the pool it read although two items were handed out, and the persisted
   history holds its record and not the other one. *)
C26_LostUpdate ==
    [][ \A p \in Procs : \A q \in Procs \ {p} :
          ( /\ SpinReturned(procs, q) /\ procs[p].pc = "apply" /\ SpinReturned(procs', p)
            /\ Get(procs'[p].st).version = Get(procs[q].st).version
            /\ ReturnedRecord(procs', p) # ReturnedRecord(procs, q) ) =>
              /\ store' = procs'[p].st
              /\ Get(store').version = Get(procs[p].st).version + 1
              /\ Len(Get(store').pool) = Len(Get(procs[p].st).pool) - 1
              /\ InHistory(ReturnedRecord(procs', p), Get(store').history)
              /\ ~InHistory(ReturnedRecord(procs, q), Get(store').history) ]_vars

\* both requests have returned a drawn item with the same version; the pool
\* is one entry short for the two items, the history has one of the records
C26_Witness ==
    \E p \in Procs : \E q \in Procs \ {p} :
        /\ SpinReturned(procs, p) /\ SpinReturned(procs, q)
        /\ Get(procs[p].st).version = Get(procs[q].st).version
        /\ store = procs[p].st
        /\ DrawCount(draws) = 2
        /\ Len(Cur.pool) = Len(Cur.items) - 1
        /\ InHistory(ReturnedRecord(procs, p), Cur.history)
        /\ ~InHistory(ReturnedRecord(procs, q), Cur.history)
        /\ Len(Cur.history) = 1

(* C29: when testing mode is never on, no two records of the persisted
   history carry auction numbers that are equal ignoring case, whatever the
   interleaving of concurrent calls, the lost update included. *)
C29_PersistedHistoryUnique ==
    IsSome(store) =>
        /\ ~Cur.isTestingMode
        /\ \A i \in 1..Len(Cur.history) : \A j \in (i + 1)..Len(Cur.history) :
              ~HistoryHasAuction(<<Cur.history[i]>>, Cur.history[j].auctionNumber)

\* two requests that read the same state returned a draw for 'a' and for 'A':
\* the persisted history has one of the two records
C29_Witness ==
    \E p \in Procs : \E q \in Procs \ {p} :
        /\ SpinReturned(procs, p) /\ SpinReturned(procs, q)
        /\ ReturnedRecord(procs, p).auctionNumber = <<"a">>
        /\ ReturnedRecord(procs, q).auctionNumber = <<"A">>
        /\ ReturnedRecord(procs, p).version = ReturnedRecord(procs, q).version
        /\ IsSome(store) /\ Len(Cur.history) = 1

\* the step is the store write of a call of this toggle
ToggleWrites(opName) ==
    \E p \in Procs :
        procs[p].pc = "apply" /\ procs[p].op = opName /\ procs'[p].pc = "done"

(* C34: the flags are durable under concurrency.  Once a setPublicOffline or
   setTestingMode has written, the persisted isOffline (isTestingMode) keeps
   its value until a call of the same toggle writes: no store write of
   another call, in flight at the time or not, changes it. *)
C34_FlagDurability ==
    [][ (IsSome(store) /\ IsSome(store')) =>
           /\ Get(store').isOffline # Get(store).isOffline => ToggleWrites("setPublicOffline")
           /\ Get(store').isTestingMode # Get(store).isTestingMode => ToggleWrites("setTestingMode")
      ]_vars


----------------------------------------------------------------------------
(* Properties of the items-config route *)

SentEntries == parseItemConfig(Normalized(Get(Get(last.req).configText)))
NameNotInCatalog(entries) ==
    \E k \in 1..Len(entries) : entries[k].name \notin StaffCatalogNames
Refused(entries) == NameNotInCatalog(entries) \/ getTotalQty(entries) > 500

\* C36: a PUT whose configuration names an item the staff catalog does not
\* have, or whose quantities add up to more than 500, is answered 400 (401
\* without an admin session) and leaves the saved configuration and the
\* stored spin state as they were; a PUT answered 200 leaves the saved
\* configuration equal to the sent entries and the stored items and pool both
\* equal to their expansion, of at most 500 entries.
C36_ValidatedBeforeEffect ==
    last.op = "PUT" =>
        /\ ( /\ Get(last.req).configText # None
             /\ SentEntries.ok
             /\ Refused(SentEntries.entries) )
           => /\ last.status = IF Get(last.req).token = Some(<<"t", "k">>) THEN 400 ELSE 401
              /\ store = last.pre
              /\ catalog = last.preCatalog
        /\ last.status = 200
           => /\ SentEntries.ok
              /\ catalog = SentEntries.entries
              /\ Cur.items = expandItemEntries(SentEntries.entries)
              /\ Cur.pool = Cur.items
              /\ Len(Cur.pool) <= 500

\* a configuration of 501 entries is refused after a draw
C36_Witness ==
    /\ last.op = "PUT"
    /\ last.status = 400
    /\ Get(last.req).configText # None
    /\ SentEntries.ok
    /\ ~NameNotInCatalog(SentEntries.entries)
    /\ getTotalQty(SentEntries.entries) = 501
    /\ store # None
    /\ Cur.pool # Cur.items

\* a configuration of exactly 500 entries is saved over a drawn pool
C36_SavedAtLimit ==
    /\ last.op = "PUT"
    /\ last.status = 200
    /\ Len(Cur.pool) = 500
    /\ last.pre # None
    /\ Get(last.pre).pool # Get(last.pre).items


----------------------------------------------------------------------------
(* Properties of the polling page *)

\* the calls that step the version without drawing
OtherBumps ==
    { "setPublicOffline", "setTestingMode", "resetSpinState", "clearSpinHistory",
      "resetPoolAndClearHistory", "setCurrentBuyersGiveawayItem", "runBuyersGiveaway" }

\* the page polled, then exactly one call of ops wrote, and nothing else happened
OnlyChange(ops) ==
    /\ last.op \in ops
    /\ last.wrote
    /\ ~last.ensWrote
    /\ view.seen = Some(Payload(Ens))
    /\ store = last.ret

\* a poll starts the reel only when the polled version is above the version
\* seen before, selectedItem is not null and lastSpin.version is above the
\* lastSpin version kept from the polls before (none kept counts as below)
C37_OnlyWhen ==
    [][ (last'.op = "load" /\ view'.spinStarted)
        => LET p == Get(view'.seen)
           IN /\ view.seen # None
              /\ p.version > Get(view.seen).version
              /\ p.selectedItem # None
              /\ p.lastSpin # None
              /\ \/ view.lastSpinVersionRef = None
                 \/ Get(p.lastSpin).version > Get(view.lastSpinVersionRef) ]_vars

\* a poll that finds nothing but one version step of a toggle, a giveaway call
\* or a reset since the poll before does not start the reel
C37_NotByOtherBumps ==
    [][ (last'.op = "load" /\ OnlyChange(OtherBumps)) => ~view'.spinStarted ]_vars

\* a poll that finds the payload of the poll before does not start the reel
C37_NotOnRepoll ==
    [][ (last'.op = "load" /\ view.seen # None /\ view'.seen = view.seen)
        => ~view'.spinStarted ]_vars

\* C37: the public page starts the reel on a poll only when the polled version
\* is above the version seen before, selectedItem is not null and
\* lastSpin.version is above the lastSpin version seen before; a version step
\* made by a mode toggle, a giveaway call or a reset never starts it, and
\* neither does a poll of an unchanged state.
C37_AnimatesOnlyNewSpins ==
    /\ C37_OnlyWhen
    /\ C37_NotByOtherBumps
    /\ C37_NotOnRepoll

\* the reel started on a poll whose only news was setPublicOffline(false)
C37_ReplayAfterOffline ==
    /\ last.op = "load"
    /\ view.spinStarted
    /\ Cur.version = 4
    /\ Get(Cur.lastSpin).version = 2

\* the reel started on a poll right after a draw
C37_StartedAfterDraw ==
    /\ last.op = "load"
    /\ view.spinStarted
    /\ Get(Cur.lastSpin).version = Cur.version


----------------------------------------------------------------------------
(* Properties of isPoolValidForItems *)

Occurrences(seq, x) == Cardinality({i \in DOMAIN seq : seq[i] = x})

\* C38: isPoolValidForItems(pool, items) is true exactly when every value
\* occurs in pool at most as often as in items, whatever the order of the two
\* sequences; so it is true for the empty pool and false for a pool holding a
\* value that items does not hold.
C38_PoolValidIsSubMultiset ==
    last.op = "isPoolValidForItems" =>
        /\ last.ret <=> \A x \in ItemNames :
                           Occurrences(last.pool, x) <= Occurrences(last.items, x)
        /\ last.pool = <<>> => last.ret
        /\ (\E i \in DOMAIN last.pool : \A j \in DOMAIN last.items :
               last.items[j] # last.pool[i]) => ~last.ret

\* a reordered pool holding a value more often than the items do is refused,
\* though the items hold every value of the pool
C38_Witness ==
    /\ last.op = "isPoolValidForItems"
    /\ ~last.ret
    /\ last.poolArg # last.pool
    /\ last.itemsArg # last.items
    /\ \A i \in DOMAIN last.pool : \E j \in DOMAIN last.items : last.items[j] = last.pool[i]

\* a reordered pool within the counts of the items is accepted
C38_Accepted ==
    /\ last.op = "isPoolValidForItems"
    /\ last.ret
    /\ Len(last.pool) = 2
    /\ last.poolArg # last.pool


----------------------------------------------------------------------------
(* Properties of the catalog expansion *)

RECURSIVE QtySum(_, _)
QtySum(entries, name) ==
    IF entries = <<>> THEN 0
    ELSE (IF entries[1].name = name THEN entries[1].qty ELSE 0)
         + QtySum(SubSeq(entries, 2, Len(entries)), name)

\* C39: the entries parseItemConfig accepts all have a quantity of at least 1,
\* and for them expandItemEntries returns a list as long as
\* getTotalQty(entries) in which each name occurs as often as the quantities
\* of the entries with that name add up to.
C39_ExpansionPreservesQuantities ==
    /\ (last.op = "parseItemConfig" /\ last.ok)
       => /\ last.entries # <<>>
          /\ \A k \in DOMAIN last.entries : last.entries[k].qty >= 1
    /\ last.op = "expandItemEntries"
       => /\ Len(last.expanded) = last.total
          /\ \A name \in ItemNames :
                Occurrences(last.expanded, name) = QtySum(last.entries, name)
          /\ \A i \in DOMAIN last.expanded : last.expanded[i] \in ItemNames

\* three accepted lines, two of them for the same name, are expanded
C39_Witness ==
    /\ last.op = "expandItemEntries"
    /\ Len(last.entries) = 3
    /\ last.entries[1].name = last.entries[3].name
    /\ last.entries[1].name # last.entries[2].name
    /\ last.entries[3].qty = 12
    /\ last.total = 15

\* a text with a quantity of 0 is not accepted
C39_ZeroRefused ==
    /\ last.op = "parseItemConfig"
    /\ ~last.ok

====
